---- MODULE Spec2Model ----
(***************************************************************************)
(* Layout and routing engine of the FPD editor (VDI 3682 diagrams).        *)
(*                                                                         *)
(* Ids are modelled as integers: process operators 1..9, states 11..19,    *)
(* technical resources 21..29, GhostId an id that names no element.  The   *)
(* integer order stands for the code-unit order of the id strings (the     *)
(* order of Array.prototype.sort()); LocaleKey gives the order of          *)
(* String.prototype.localeCompare.                                         *)
(*                                                                         *)
(* Lengths are integers in units of 1/Scale pixel, so that every division  *)
(* the code performs (halves, port spacings, 0.6 * font size) is exact.    *)
(*                                                                         *)
(* The undo/redo hook useHistoryManager is modelled with its three state   *)
(* cells and the values its callbacks captured at the last render.         *)
(*                                                                         *)
(* Of the viewport hook useViewport the zoom level is modelled, in units   *)
(* of 1/ZoomUnit; the pan offset never enters a zoom computation and is    *)
(* left out.  A zoom is a floating point number: finite, NaN or Infinity.  *)
(*                                                                         *)
(* The hook useFpbParser is modelled with its state cells, its two refs,   *)
(* the debounce timer and the parseSource calls it has made; each call     *)
(* carries the aborted flag of its AbortController.                        *)
(***************************************************************************)
EXTENDS Integers, Sequences, FiniteSets, TLC

VARIABLES
    model,        \* the ProcessModel handed to the engine
    pc,           \* position of the computation
    poSuccessors, \* topologicalSortPOs: precedence graph
    inDegree,     \* topologicalSortPOs: remaining in-degree per operator
    remaining,    \* topologicalSortPOs: operators not yet ordered
    poOrder,      \* topologicalSortPOs: emitted order
    poRank,       \* topologicalSortPOs: rank per ordered operator
    currentRank,  \* topologicalSortPOs: next rank
    iterations,   \* number of iterations of the while loop so far
    affinities,   \* result of assignStateAffinities
    diagram,      \* result of layoutProcessModel
    routeIn,      \* arguments of computeRouting
    routed,       \* result of computeRouting
    currentState, \* useHistoryManager: state cell, queued updates applied
    past,         \* useHistoryManager: state cell, queued updates applied
    future,       \* useHistoryManager: state cell, queued updates applied
    rendered,     \* useHistoryManager: the cells as the last render saw them
    calls,        \* the calls made on the hook so far
    viewport,     \* useViewport: state cell, queued updates applied
    viewportRef,  \* useViewport: viewportRef.current, set at each render
    isPanning,    \* useViewport: state cell
    gestures,     \* useViewport: the closures of the gestures in progress
    events,       \* number of events the viewport has handled
    fpbSource,    \* useFpbParser: the source text of the last render
    parser,       \* useFpbParser: state cells, refs and the debounce timer
    requests      \* useFpbParser: the parseSource calls made so far

vars == <<model, pc, poSuccessors, inDegree, remaining, poOrder, poRank,
          currentRank, iterations, affinities, diagram, routeIn, routed,
          currentState, past, future, rendered, calls,
          viewport, viewportRef, isPanning, gestures, events,
          fpbSource, parser, requests>>

parserVars == <<fpbSource, parser, requests>>

viewVars == <<viewport, viewportRef, isPanning, gestures, events>>

histVars == <<currentState, past, future, rendered, calls>>

Null == [none |-> TRUE]

(* ------------------------------ helpers -------------------------------- *)

SeqToSet(s) == {s[i] : i \in 1..Len(s)}

MinOf(S) == CHOOSE x \in S : \A y \in S : x <= y

MaxOf(S) == CHOOSE x \in S : \A y \in S : x >= y

Abs(x) == IF x < 0 THEN -x ELSE x

RECURSIVE SortAsc(_)
SortAsc(S) ==
    IF S = {} THEN << >>
    ELSE LET m == MinOf(S) IN <<m>> \o SortAsc(S \ {m})

RECURSIVE SubsetsUpTo(_, _)
SubsetsUpTo(S, k) ==
    IF k = 0 \/ S = {} THEN {{}}
    ELSE LET x == CHOOSE y \in S : TRUE
             rest == S \ {x}
         IN  SubsetsUpTo(rest, k) \cup {T \cup {x} : T \in SubsetsUpTo(rest, k - 1)}

(* ------------------------------ constants ------------------------------ *)

Scale == 5040

GhostId == 99

\* localeCompare orders "a" < "B" < "c" < ...; the code-unit order is
\* "B" < "a" < "c": operator 1 is "B", operator 2 is "a".
LocaleKey(id) == IF id = 1 THEN 2 ELSE IF id = 2 THEN 1 ELSE id

localeCompare(a, b) == LocaleKey(a) - LocaleKey(b)

(* ------------------- Phase 0: buildConnectivityGraph ------------------- *)

IsStateToPO(flow, stateIds, poIds) ==
    flow.source_ref \in stateIds /\ flow.target_ref \in poIds

IsPOToState(flow, stateIds, poIds) ==
    /\ ~IsStateToPO(flow, stateIds, poIds)
    /\ flow.source_ref \in poIds /\ flow.target_ref \in stateIds

SourceRefs(flows) == [i \in 1..Len(flows) |-> flows[i].source_ref]

TargetRefs(flows) == [i \in 1..Len(flows) |-> flows[i].target_ref]

\* trToPo.set in list order: the last usage of a resource wins
TrToPoOf(usages, trId) ==
    usages[MaxOf({i \in 1..Len(usages) : usages[i].technical_resource_ref = trId})]
        .process_operator_ref

buildConnectivityGraph(states, processOperators, flows, usages) ==
    LET poIds == {processOperators[i].id : i \in 1..Len(processOperators)}
        stateIds == {states[i].id : i \in 1..Len(states)}
        S2P(f) == IsStateToPO(f, stateIds, poIds)
        P2S(f) == IsPOToState(f, stateIds, poIds)
        regular == {flows[i].target_ref : i \in {j \in 1..Len(flows) :
                        P2S(flows[j]) /\ flows[j].flow_type # "alternativeFlow"}}
        alt == {flows[i].target_ref : i \in {j \in 1..Len(flows) :
                        P2S(flows[j]) /\ flows[j].flow_type = "alternativeFlow"}}
    IN  [ stateToTargetPOs |-> [s \in stateIds |->
              LET Mine(f) == S2P(f) /\ f.source_ref = s
              IN  TargetRefs(SelectSeq(flows, Mine))],
          stateToSourcePOs |-> [s \in stateIds |->
              LET Mine(f) == P2S(f) /\ f.target_ref = s
              IN  SourceRefs(SelectSeq(flows, Mine))],
          poToInputStates |-> [p \in poIds |->
              LET Mine(f) == S2P(f) /\ f.target_ref = p
              IN  SourceRefs(SelectSeq(flows, Mine))],
          poToOutputStates |-> [p \in poIds |->
              LET Mine(f) == P2S(f) /\ f.source_ref = p
              IN  TargetRefs(SelectSeq(flows, Mine))],
          trToPo |-> [t \in {usages[i].technical_resource_ref : i \in 1..Len(usages)} |->
              TrToPoOf(usages, t)],
          allFlowRefs |-> SeqToSet(SourceRefs(flows)) \cup SeqToSet(TargetRefs(flows)),
          poIds |-> poIds,
          altFlowOnlySinks |-> alt \ regular ]

(* -------------------- Phase 1: topologicalSortPOs ---------------------- *)

\* stateToSourcePOs.get(id) ?? []
GetList(map, id) == IF id \in DOMAIN map THEN map[id] ELSE << >>

\* poSuccessors, built from the intermediate states
BuildSuccessors(processOperators, states, graph) ==
    LET poIds == {processOperators[i].id : i \in 1..Len(processOperators)}
    IN  [p \in poIds |->
            {t \in poIds : /\ t # p
                           /\ \E i \in 1..Len(states) :
                                 /\ p \in SeqToSet(GetList(graph.stateToSourcePOs, states[i].id))
                                 /\ t \in SeqToSet(GetList(graph.stateToTargetPOs, states[i].id))}]

\* poPredecessors.get(po.id).size
InitialInDegree(succ) ==
    [p \in DOMAIN succ |-> Cardinality({q \in DOMAIN succ : p \in succ[q]})]

\* the cycle-breaking choice: sorted[0] of remaining, by in-degree, then localeCompare
CycleBreakPick(rem, deg) ==
    CHOOSE a \in rem : \A b \in rem :
        b = a \/ deg[a] < deg[b] \/ (deg[a] = deg[b] /\ localeCompare(a, b) < 0)

\* the ready set without the cycle-breaking branch
ReadyOfNoCycleBreak(rem, deg) == {id \in rem : deg[id] = 0}

\* every remaining operator is ready
ReadyOfAllRemaining(rem, deg) == rem

ReadyOf(rem, deg) ==
    LET ready == {id \in rem : deg[id] = 0}
    IN  IF ready = {} THEN {CycleBreakPick(rem, deg)} ELSE ready

\* body of the for loop over ready: order one operator
EmitPO(st, poId, succ) ==
    LET rem2 == st.remaining \ {poId}
    IN  [ inDegree |-> [p \in DOMAIN st.inDegree |->
              IF p \in succ[poId] /\ p \in rem2 THEN st.inDegree[p] - 1
              ELSE st.inDegree[p]],
          remaining |-> rem2,
          poOrder |-> Append(st.poOrder, poId),
          poRank |-> [p \in DOMAIN st.poRank \cup {poId} |->
              IF p = poId THEN st.currentRank ELSE st.poRank[p]],
          currentRank |-> st.currentRank + 1 ]

RECURSIVE EmitAll(_, _, _)
EmitAll(st, ready, succ) ==
    IF ready = << >> THEN st
    ELSE EmitAll(EmitPO(st, Head(ready), succ), Tail(ready), succ)

\* one rank per round of the loop instead of one rank per operator
SortIterationRankPerRound(st, succ) ==
    LET ready == ReadyOf(st.remaining, st.inDegree)
        out == EmitAll(st, SortAsc(ready), succ)
    IN  [out EXCEPT !.poRank = [p \in DOMAIN out.poRank |->
                                    IF p \in ready THEN st.currentRank ELSE out.poRank[p]],
                    !.currentRank = st.currentRank + 1]

\* one iteration of the while loop
SortIteration(st, succ) ==
    EmitAll(st, SortAsc(ReadyOf(st.remaining, st.inDegree)), succ)

SortStart(processOperators, succ) ==
    [ inDegree |-> InitialInDegree(succ),
      remaining |-> {processOperators[i].id : i \in 1..Len(processOperators)},
      poOrder |-> << >>,
      poRank |-> << >>,
      currentRank |-> 0 ]

RECURSIVE SortLoop(_, _)
SortLoop(st, succ) ==
    IF st.remaining = {} THEN st ELSE SortLoop(SortIteration(st, succ), succ)

topologicalSortPOs(processOperators, states, graph) ==
    LET succ == BuildSuccessors(processOperators, states, graph)
    IN  SortLoop(SortStart(processOperators, succ), succ)

(* ----------------------- Phase 2: classifyState ------------------------ *)

\* an absent optional number (sourceRank?: number); ranks are never negative
Undefined == 0 - 1

\* poRank.get(id) ?? 0
RankOf(rank, id) == IF id \in DOMAIN rank THEN rank[id] ELSE 0

RanksOf(rank, poList) == {RankOf(rank, poList[i]) : i \in 1..Len(poList)}

\* the side of a product state without the rank refinement
productBoundarySideNoRank(isInput, rank, connectedPOs, maxRank) ==
    IF isInput THEN "boundary-top" ELSE "boundary-bottom"

\* rank is never null here: assignStateAffinities always passes the map
productBoundarySide(isInput, rank, connectedPOs, maxRank) ==
    IF isInput
    THEN IF Len(connectedPOs) > 0 /\ maxRank > 0 /\ MinOf(RanksOf(rank, connectedPOs)) > 0
         THEN "boundary-left" ELSE "boundary-top"
    ELSE IF Len(connectedPOs) > 0 /\ maxRank > 0
            /\ MaxOf(RanksOf(rank, connectedPOs)) < maxRank
         THEN "boundary-right" ELSE "boundary-bottom"

\* placement == null
NoPlacement == "none"

ExplicitPlacements ==
    {"boundary-top", "boundary-bottom", "boundary-left", "boundary-right", "internal"}

\* rule 2 as the kind alone decides it (no productBoundarySide)
classifyStateBoundaryByKind(state, graph, rank, maxRank) ==
    LET sourcePOs == GetList(graph.stateToSourcePOs, state.id)
        targetPOs == GetList(graph.stateToTargetPOs, state.id)
        isPureSource == Len(targetPOs) > 0 /\ Len(sourcePOs) = 0
        isPureSink == Len(sourcePOs) > 0 /\ Len(targetPOs) = 0
        isIntermediate == Len(sourcePOs) > 0 /\ Len(targetPOs) > 0
        isProduct == state.state_type = "product"
    IN  IF state.id \notin graph.allFlowRefs THEN "disconnected"
        ELSE IF state.placement \in ExplicitPlacements THEN state.placement
        ELSE IF state.placement = "boundary" THEN
            IF isPureSource THEN (IF isProduct THEN "boundary-top" ELSE "boundary-left")
            ELSE IF isPureSink THEN (IF isProduct THEN "boundary-bottom" ELSE "boundary-right")
            ELSE IF isProduct THEN "boundary-top" ELSE "boundary-left"
        ELSE IF isIntermediate THEN "internal"
        ELSE IF isPureSource THEN
            (IF isProduct THEN productBoundarySide(TRUE, rank, targetPOs, maxRank)
             ELSE "boundary-left")
        ELSE IF isPureSink THEN
            (IF isProduct THEN productBoundarySide(FALSE, rank, sourcePOs, maxRank)
             ELSE "boundary-right")
        ELSE "boundary-top"

classifyState(state, graph, rank, maxRank) ==
    LET sourcePOs == GetList(graph.stateToSourcePOs, state.id)
        targetPOs == GetList(graph.stateToTargetPOs, state.id)
        isPureSource == Len(targetPOs) > 0 /\ Len(sourcePOs) = 0
        isPureSink == Len(sourcePOs) > 0 /\ Len(targetPOs) = 0
        isIntermediate == Len(sourcePOs) > 0 /\ Len(targetPOs) > 0
        isProduct == state.state_type = "product"
    IN  IF state.id \notin graph.allFlowRefs THEN "disconnected"
        \* 1. explicit directional override
        ELSE IF state.placement \in ExplicitPlacements THEN state.placement
        \* 2. @boundary (auto-detect side)
        ELSE IF state.placement = "boundary" THEN
            IF isPureSource THEN
                (IF isProduct THEN productBoundarySide(TRUE, rank, targetPOs, maxRank)
                 ELSE "boundary-left")
            ELSE IF isPureSink THEN
                (IF isProduct THEN productBoundarySide(FALSE, rank, sourcePOs, maxRank)
                 ELSE "boundary-right")
            ELSE IF isProduct THEN "boundary-top" ELSE "boundary-left"
        \* 3. fully automatic (placement == null)
        ELSE IF isIntermediate THEN "internal"
        ELSE IF isPureSource THEN
            (IF isProduct THEN productBoundarySide(TRUE, rank, targetPOs, maxRank)
             ELSE "boundary-left")
        ELSE IF isPureSink THEN
            (IF isProduct THEN productBoundarySide(FALSE, rank, sourcePOs, maxRank)
             ELSE "boundary-right")
        \* fallback
        ELSE "boundary-top"

(* -------------------- Phase 3: assignStateAffinities ------------------- *)

StateAffinity(state, graph, rank, maxRank) ==
    LET category == classifyState(state, graph, rank, maxRank)
        sourcePOs == GetList(graph.stateToSourcePOs, state.id)
        targetPOs == GetList(graph.stateToTargetPOs, state.id)
        sourceRank == IF category = "internal" /\ Len(sourcePOs) > 0
                      THEN MaxOf(RanksOf(rank, sourcePOs)) ELSE Undefined
        targetRank == IF category = "internal" /\ Len(targetPOs) > 0
                      THEN MinOf(RanksOf(rank, targetPOs)) ELSE Undefined
    IN  [ category |-> category,
          affiliatedRank |->
              IF category = "boundary-left"
              THEN (IF Len(targetPOs) > 0 THEN MinOf(RanksOf(rank, targetPOs)) ELSE 0)
              ELSE IF category = "boundary-right"
              THEN (IF Len(sourcePOs) > 0 THEN MaxOf(RanksOf(rank, sourcePOs)) ELSE 0)
              ELSE IF category = "internal"
              THEN (IF sourceRank # Undefined THEN sourceRank
                    ELSE IF targetRank # Undefined THEN targetRank ELSE 0)
              ELSE 0,
          sourceRank |-> sourceRank,
          targetRank |-> targetRank ]

assignStateAffinities(states, graph, rank, maxRank) ==
    [id \in {states[i].id : i \in 1..Len(states)} |->
        StateAffinity(states[CHOOSE i \in 1..Len(states) : states[i].id = id],
                      graph, rank, maxRank)]

\* maxRank as layoutSingleSystem computes it
MaxRankOf(sorted) ==
    IF Len(sorted.poOrder) > 0
    THEN MaxOf({sorted.poRank[p] : p \in DOMAIN sorted.poRank}) ELSE 0 - 1

(* ------------------------------ geometry ------------------------------- *)

\* DEFAULT_CONFIG
padding == 40 * Scale
hGap == 40 * Scale
vGap == 80 * Scale
systemLimitPadding == 50 * Scale
resourceOffsetX == 40 * Scale

INTERNAL_V_GAP == 40 * Scale
BOUNDARY_EXTRA_V == 40 * Scale
STATE_LABEL_ABOVE == 35 * Scale

\* shapes.state[state_type].width
StateWidth(type) == IF type = "information" THEN 55 * Scale ELSE 50 * Scale

STATE_MAX_W == 55 * Scale
STATE_H == 50 * Scale
PROCESS_W == 150 * Scale
PROCESS_H == 80 * Scale
RESOURCE_W == 150 * Scale
RESOURCE_H == 80 * Scale

\* typography.fontSize.stateLabel * 0.6
charW == (11 * 6 * Scale) \div 10

Max2(a, b) == IF a >= b THEN a ELSE b

Min2(a, b) == IF a <= b THEN a ELSE b

RECURSIVE Concat(_)
Concat(ss) == IF ss = << >> THEN << >> ELSE Head(ss) \o Concat(Tail(ss))

\* the distinct entries of a list, in the order of their first occurrence
\* (the key order of a Map filled in list order)
DistinctInOrder(s) ==
    LET idx == SortAsc({i \in 1..Len(s) : \A j \in 1..(i - 1) : s[j] # s[i]})
    IN  [k \in 1..Len(idx) |-> s[idx[k]]]

distributeAlongAxis(count, itemSize, gap, startPos) ==
    [i \in 1..count |-> startPos + (i - 1) * (itemSize + gap)]

distributeCentered(count, itemSize, gap, centerPos) ==
    IF count = 0 THEN << >>
    ELSE distributeAlongAxis(count, itemSize, gap,
                             centerPos - (count * itemSize + (count - 1) * gap) \div 2)

StateElement(s, x, y) ==
    [id |-> s.id, type |-> "state", x |-> x, y |-> y,
     width |-> StateWidth(s.state_type), height |-> STATE_H, labelLen |-> s.labelLen]

POElement(p, x, y) ==
    [id |-> p.id, type |-> "processOperator", x |-> x, y |-> y,
     width |-> PROCESS_W, height |-> PROCESS_H, labelLen |-> 0]

TRElement(t, x, y) ==
    [id |-> t.id, type |-> "technicalResource", x |-> x, y |-> y,
     width |-> RESOURCE_W, height |-> RESOURCE_H, labelLen |-> 0]

(* ------------------------- layoutSingleSystem -------------------------- *)

\* 4a) the y of the operator row of every rank; counts[r] is the larger of
\* the numbers of boundary-left and boundary-right states at rank r
PoRowYs(maxRank, startTop, counts, hasIntermediatesBelow) ==
    LET rowHeight(r) ==
            Max2(PROCESS_H, IF counts[r] > 0 THEN counts[r] * (STATE_H + hGap) - hGap ELSE 0)
        after(r) ==
            IF r \in hasIntermediatesBelow THEN INTERNAL_V_GAP + STATE_H + INTERNAL_V_GAP
            ELSE IF r < maxRank THEN vGap ELSE 0
        top[r \in 0..maxRank] ==
            IF r = 0 THEN startTop ELSE top[r - 1] + rowHeight(r - 1) + after(r - 1)
    IN  [r \in 0..maxRank |-> top[r] + (rowHeight(r) - PROCESS_H) \div 2]

\* Phase 5: the bounding box of the core elements, label extents included
CoreBox(core) ==
    LET minX(e) == IF e.type = "state"
                   THEN Min2(e.x + e.width \div 2 - 6 * Scale - e.labelLen * charW, e.x)
                   ELSE e.x
        minY(e) == IF e.type = "state" THEN e.y - STATE_LABEL_ABOVE ELSE e.y
    IN  [ minX |-> MinOf({minX(core[i]) : i \in 1..Len(core)}),
          minY |-> MinOf({minY(core[i]) : i \in 1..Len(core)}),
          maxX |-> MaxOf({core[i].x + core[i].width : i \in 1..Len(core)}),
          maxY |-> MaxOf({core[i].y + core[i].height : i \in 1..Len(core)}) ]

\* Phase 7: one connection per flow, with its routing hints, then one per usage
FlowConnection(flow, boundaryTopIds, boundaryBottomIds, backwardInternalIds) ==
    [ id |-> flow.id, sourceId |-> flow.source_ref, targetId |-> flow.target_ref,
      flowType |-> flow.flow_type, isUsage |-> FALSE,
      sourceSide |->
          IF flow.target_ref \in backwardInternalIds THEN "left"
          ELSE IF flow.source_ref \in backwardInternalIds THEN "top"
          ELSE IF flow.source_ref \in boundaryTopIds THEN "bottom"
          ELSE "none",
      targetSide |->
          IF flow.target_ref \in backwardInternalIds THEN "bottom"
          ELSE IF flow.source_ref \in backwardInternalIds THEN "left"
          ELSE IF flow.target_ref \in boundaryBottomIds THEN "top"
          ELSE "none" ]

UsageConnection(usage) ==
    [ id |-> usage.id, sourceId |-> usage.process_operator_ref,
      targetId |-> usage.technical_resource_ref,
      flowType |-> "none", isUsage |-> TRUE, sourceSide |-> "none", targetSide |-> "none" ]

\* The local constants of layoutSingleSystem are collected, phase by phase,
\* in one record c that starts with the arguments.
LayoutArgs(states, processOperators, technicalResources, flows, usages, offsetX, offsetY) ==
    [ states |-> states, processOperators |-> processOperators,
      technicalResources |-> technicalResources, flows |-> flows, usages |-> usages,
      startX |-> offsetX + padding, startY |-> offsetY + padding ]

\* Phase 0
WithGraph(c) ==
    [graph |-> buildConnectivityGraph(c.states, c.processOperators, c.flows, c.usages)] @@ c

\* Phase 1
WithOrder(c) ==
    [sorted |-> topologicalSortPOs(c.processOperators, c.states, c.graph)] @@ c

\* Phase 2 + 3
WithAffinities(c) ==
    [ maxRank |-> MaxRankOf(c.sorted),
      aff |-> assignStateAffinities(c.states, c.graph, c.sorted.poRank,
                                    MaxRankOf(c.sorted)) ] @@ c

\* group states by category
WithCategories(c) ==
    LET IsTop(s) == c.aff[s.id].category = "boundary-top"
        IsBottom(s) == c.aff[s.id].category = "boundary-bottom"
        IsLeft(s) == c.aff[s.id].category = "boundary-left"
        IsRight(s) == c.aff[s.id].category = "boundary-right"
        IsInternal(s) == c.aff[s.id].category = "internal"
        IsDisconnected(s) == c.aff[s.id].category = "disconnected"
        NotReferenced(p) == p.id \notin c.graph.allFlowRefs
    IN  [ boundaryTop |-> SelectSeq(c.states, IsTop),
          boundaryBottom |-> SelectSeq(c.states, IsBottom),
          leftStates |-> SelectSeq(c.states, IsLeft),
          rightStates |-> SelectSeq(c.states, IsRight),
          internalStates |-> SelectSeq(c.states, IsInternal),
          disconnectedStates |-> SelectSeq(c.states, IsDisconnected),
          disconnectedPOs |-> SelectSeq(c.processOperators, NotReferenced) ] @@ c

AffRank(c, s) == c.aff[s.id].affiliatedRank

SRank(c, s) ==
    IF c.aff[s.id].sourceRank # Undefined THEN c.aff[s.id].sourceRank
    ELSE c.aff[s.id].affiliatedRank

TRank(c, s) ==
    IF c.aff[s.id].targetRank # Undefined THEN c.aff[s.id].targetRank
    ELSE SRank(c, s) + 1

\* boundaryLeft.get(r) and boundaryRight.get(r)
LeftAt(c, r) == LET At(s) == AffRank(c, s) = r IN SelectSeq(c.leftStates, At)

RightAt(c, r) == LET At(s) == AffRank(c, s) = r IN SelectSeq(c.rightStates, At)

\* every internal state goes into a forward gap
WithSplitAllForward(c) ==
    [ leftRanks |->
          DistinctInOrder([i \in 1..Len(c.leftStates) |-> AffRank(c, c.leftStates[i])]),
      rightRanks |->
          DistinctInOrder([i \in 1..Len(c.rightStates) |-> AffRank(c, c.rightStates[i])]),
      forwardInternals |-> c.internalStates,
      backwardInternals |-> << >> ] @@ c

\* the keys of boundaryLeft and boundaryRight, and the forward / backward
\* split of the internal states
WithSplit(c) ==
    LET IsForward(s) == SRank(c, s) < TRank(c, s)
        IsBackward(s) == ~IsForward(s)
    IN  [ leftRanks |->
              DistinctInOrder([i \in 1..Len(c.leftStates) |-> AffRank(c, c.leftStates[i])]),
          rightRanks |->
              DistinctInOrder([i \in 1..Len(c.rightStates) |-> AffRank(c, c.rightStates[i])]),
          forwardInternals |-> SelectSeq(c.internalStates, IsForward),
          backwardInternals |-> SelectSeq(c.internalStates, IsBackward) ] @@ c

\* the keys of internalsByGap
WithGaps(c) ==
    [ gapKeys |->
          DistinctInOrder([i \in 1..Len(c.forwardInternals) |->
              <<SRank(c, c.forwardInternals[i]), TRank(c, c.forwardInternals[i])>>]) ] @@ c

GapStates(c, key) ==
    LET In(s) == <<SRank(c, s), TRank(c, s)>> = key
    IN  SelectSeq(c.forwardInternals, In)

\* 4a) and the left edge of 4b)
WithRows(c) ==
    [ rowYs |->
          PoRowYs(c.maxRank,
                  c.startY + (IF Len(c.boundaryTop) > 0 THEN STATE_H + vGap ELSE 0),
                  [r \in 0..c.maxRank |-> Max2(Len(LeftAt(c, r)), Len(RightAt(c, r)))],
                  {c.gapKeys[i][1] : i \in 1..Len(c.gapKeys)}),
      coreLeftX |->
          c.startX + (IF Len(c.leftRanks) > 0 THEN STATE_MAX_W + hGap ELSE 0)
                   + (IF Len(c.backwardInternals) > 0 THEN STATE_MAX_W + hGap ELSE 0) ] @@ c

\* poRowY.get(r) ?? startY
PoRowY(c, r) == IF r \in DOMAIN c.rowYs THEN c.rowYs[r] ELSE c.startY

\* processOperators.find((p) => p.id === id)
PoById(processOperators, id) ==
    processOperators[MinOf({i \in 1..Len(processOperators) : processOperators[i].id = id})]

\* 4c) the forward internal states of one gap
GapEls(c, key) ==
    LET nextRowY == IF Min2(key[1] + 1, key[2]) \in DOMAIN c.rowYs
                    THEN c.rowYs[Min2(key[1] + 1, key[2])] ELSE PoRowY(c, key[2])
        midY == (PoRowY(c, key[1]) + PROCESS_H + nextRowY) \div 2 - STATE_H \div 2
        Slot(gs) ==
            LET X(xs, i) == xs[i] + (STATE_MAX_W - StateWidth(gs[i].state_type)) \div 2
            IN  [i \in 1..Len(gs) |->
                    StateElement(gs[i],
                                 X(distributeCentered(Len(gs), STATE_MAX_W, hGap,
                                                      c.coreLeftX + PROCESS_W \div 2), i),
                                 midY)]
    IN  Slot(GapStates(c, key))

\* a feedback state right of the operators
BackElRightOfOperators(c, s) ==
    StateElement(s, c.coreLeftX + PROCESS_W + hGap, PoRowY(c, 0))

\* 4d) a feedback state, left of the operators
BackEl(c, s) ==
    LET sR == IF c.aff[s.id].sourceRank # Undefined THEN c.aff[s.id].sourceRank ELSE 0
        tR == IF c.aff[s.id].targetRank # Undefined THEN c.aff[s.id].targetRank ELSE 0
        feedbackX == c.coreLeftX - STATE_MAX_W - hGap
    IN  StateElement(s, feedbackX + (STATE_MAX_W - StateWidth(s.state_type)) \div 2,
                     (PoRowY(c, Min2(sR, tR)) + PROCESS_H + PoRowY(c, Max2(sR, tR))) \div 2
                         - STATE_H \div 2)

\* 4b), 4c), 4d)
WithCore(c) ==
    [ poEls |->
          [i \in 1..Len(c.sorted.poOrder) |->
              POElement(PoById(c.processOperators, c.sorted.poOrder[i]), c.coreLeftX,
                        PoRowY(c, RankOf(c.sorted.poRank, c.sorted.poOrder[i])))],
      forwardEls |-> Concat([k \in 1..Len(c.gapKeys) |-> GapEls(c, c.gapKeys[k])]),
      backwardEls |->
          [i \in 1..Len(c.backwardInternals) |-> BackEl(c, c.backwardInternals[i])] ] @@ c

\* Phase 5: the core elements and their bounding box
WithCoreBox(c) ==
    LET coreElements == c.poEls \o c.forwardEls \o c.backwardEls
    IN  [ coreElements |-> coreElements,
          hasLimit |-> Len(coreElements) > 0 \/ Len(c.boundaryTop) > 0
                       \/ Len(c.boundaryBottom) > 0,
          box0 |-> IF Len(coreElements) > 0 THEN CoreBox(coreElements)
                   ELSE [minX |-> c.coreLeftX, minY |-> c.startY,
                         maxX |-> c.coreLeftX + PROCESS_W,
                         maxY |-> c.startY + PROCESS_H] ] @@ c

\* Phase 5: the system limit; bounds is read only where hasLimit holds
WithLimit(c) ==
    LET minX1 == c.box0.minX
                 - (IF Len(c.leftStates) > 0 THEN STATE_MAX_W \div 2 + hGap ELSE 0)
        maxX1 == c.box0.maxX
                 + (IF Len(c.rightStates) > 0 THEN STATE_MAX_W \div 2 + hGap ELSE 0)
        topWidth == IF Len(c.boundaryTop) > 0
                    THEN Len(c.boundaryTop) * (STATE_MAX_W + hGap) - hGap ELSE 0
        bottomWidth == IF Len(c.boundaryBottom) > 0
                       THEN Len(c.boundaryBottom) * (STATE_MAX_W + hGap) - hGap ELSE 0
        maxBoundaryWidth == Max2(topWidth, bottomWidth)
        extra == IF maxBoundaryWidth > maxX1 - minX1
                 THEN (maxBoundaryWidth - (maxX1 - minX1)) \div 2 ELSE 0
        slMinX == minX1 - extra
        slMaxX == maxX1 + extra
        slMinY == c.box0.minY - (IF Len(c.boundaryTop) > 0 THEN BOUNDARY_EXTRA_V ELSE 0)
        slMaxY == c.box0.maxY + (IF Len(c.boundaryBottom) > 0 THEN BOUNDARY_EXTRA_V ELSE 0)
    IN  [ bounds |->
              [x |-> slMinX - systemLimitPadding, y |-> slMinY - systemLimitPadding,
               width |-> slMaxX - slMinX + systemLimitPadding * 2,
               height |-> slMaxY - slMinY + systemLimitPadding * 2] ] @@ c

\* the states on the top or the bottom edge of the system limit
EdgeEls(group, xs, y) == [i \in 1..Len(group) |-> StateElement(group[i], xs[i], y)]

\* the states of one rank on the left or the right edge
SideEls(group, ys, x) == [i \in 1..Len(group) |-> StateElement(group[i], x, ys[i])]

SideYs(c, count, r) ==
    distributeCentered(count, STATE_H, hGap, PoRowY(c, r) + PROCESS_H \div 2)

\* boundary states on the edges of the system limit
BoundaryEls(c) ==
    LET slCenterX == c.bounds.x + c.bounds.width \div 2
    IN  EdgeEls(c.boundaryTop,
                distributeCentered(Len(c.boundaryTop), STATE_MAX_W, hGap, slCenterX),
                c.bounds.y - STATE_H \div 2)
        \o EdgeEls(c.boundaryBottom,
                   distributeCentered(Len(c.boundaryBottom), STATE_MAX_W, hGap, slCenterX),
                   c.bounds.y + c.bounds.height - STATE_H \div 2)
        \o Concat([k \in 1..Len(c.leftRanks) |->
               SideEls(LeftAt(c, c.leftRanks[k]),
                       SideYs(c, Len(LeftAt(c, c.leftRanks[k])), c.leftRanks[k]),
                       c.bounds.x - STATE_MAX_W \div 2)])
        \o Concat([k \in 1..Len(c.rightRanks) |->
               SideEls(RightAt(c, c.rightRanks[k]),
                       SideYs(c, Len(RightAt(c, c.rightRanks[k])), c.rightRanks[k]),
                       c.bounds.x + c.bounds.width - STATE_MAX_W \div 2)])

\* the y of technical resource i
TrY(c, i) ==
    LET tr == c.technicalResources[i]
        hasPo == tr.id \in DOMAIN c.graph.trToPo
                 /\ c.graph.trToPo[tr.id] \in DOMAIN c.sorted.poRank
    IN  IF hasPo
        THEN PoRowY(c, c.sorted.poRank[c.graph.trToPo[tr.id]])
             + (PROCESS_H - RESOURCE_H) \div 2
        ELSE PoRowY(c, 0) + (i - 1) * (RESOURCE_H + hGap)

\* boundary states, then technical resources right of the system limit
WithOuter(c) ==
    LET trStartX == IF c.hasLimit THEN c.bounds.x + c.bounds.width + resourceOffsetX
                    ELSE c.coreLeftX + PROCESS_W + resourceOffsetX * 2
    IN  [ boundaryEls |-> IF c.hasLimit THEN BoundaryEls(c) ELSE << >>,
          trEls |-> [i \in 1..Len(c.technicalResources) |->
                        TRElement(c.technicalResources[i], trStartX, TrY(c, i))] ] @@ c

WithPlaced(c) == [placed |-> c.coreElements \o c.boundaryEls \o c.trEls] @@ c

\* Phase 6: disconnected elements in one row below everything
DisconnectedEls(c) ==
    LET disconnectedStartY ==
            (IF Len(c.placed) > 0
             THEN MaxOf({c.placed[i].y + c.placed[i].height : i \in 1..Len(c.placed)})
             ELSE c.startY) + vGap
        discX[i \in 1..(Len(c.disconnectedStates) + 1)] ==
            IF i = 1 THEN c.startX
            ELSE discX[i - 1] + StateWidth(c.disconnectedStates[i - 1].state_type) + hGap
    IN  [i \in 1..Len(c.disconnectedStates) |->
            StateElement(c.disconnectedStates[i], discX[i], disconnectedStartY)]
        \o [i \in 1..Len(c.disconnectedPOs) |->
               POElement(c.disconnectedPOs[i],
                         discX[Len(c.disconnectedStates) + 1] + (i - 1) * (PROCESS_W + hGap),
                         disconnectedStartY)]

IdsOf(list) == {list[i].id : i \in 1..Len(list)}

\* Phase 7 and the returned record; systemLimitBounds is << >> for null
LayoutResult(c) ==
    [ elements |-> c.placed \o DisconnectedEls(c),
      connections |->
          [i \in 1..Len(c.flows) |->
              FlowConnection(c.flows[i], IdsOf(c.boundaryTop), IdsOf(c.boundaryBottom),
                             IdsOf(c.backwardInternals))]
          \o [i \in 1..Len(c.usages) |-> UsageConnection(c.usages[i])],
      systemLimitBounds |-> IF c.hasLimit THEN <<c.bounds>> ELSE << >> ]

layoutSingleSystem(states, processOperators, technicalResources, flows, usages, offsetX, offsetY) ==
    IF Len(states) = 0 /\ Len(processOperators) = 0
    THEN [elements |-> << >>, connections |-> << >>, systemLimitBounds |-> << >>]
    ELSE LayoutResult(WithPlaced(WithOuter(WithLimit(WithCoreBox(WithCore(WithRows(
             WithGaps(WithSplit(WithCategories(WithAffinities(WithOrder(WithGraph(
                 LayoutArgs(states, processOperators, technicalResources, flows, usages,
                            offsetX, offsetY))))))))))))))

(* -------------------------- layoutProcessModel ------------------------- *)

\* every element kept
deduplicateElementsKeepAll(elements) == elements

\* keep the first element of every id
deduplicateElements(elements) ==
    LET Keep(i) == \A j \in 1..(i - 1) : elements[j].id # elements[i].id
        idx == SortAsc({i \in 1..Len(elements) : Keep(i)})
    IN  [k \in 1..Len(idx) |-> elements[idx[k]]]

systemGap == hGap * 3

\* the offset of the next system
NextOffsetX(currentOffsetX, result) ==
    IF Len(result.systemLimitBounds) > 0
    THEN result.systemLimitBounds[1].x + result.systemLimitBounds[1].width + systemGap
    ELSE IF Len(result.elements) > 0
    THEN MaxOf({result.elements[i].x + result.elements[i].width :
                   i \in 1..Len(result.elements)}) + systemGap
    ELSE currentOffsetX

\* allElements, allConnections and systemLimits after the system sl
AppendSystem(acc, sl, result) ==
    [ elements |-> acc.elements \o result.elements,
      connections |-> acc.connections \o result.connections,
      systemLimits |-> acc.systemLimits \o
          (IF Len(result.systemLimitBounds) > 0
           THEN << result.systemLimitBounds[1] @@ [id |-> sl] >> ELSE << >>) ]

\* the loop over model.system_limits, from the k-th system on
RECURSIVE LayoutSystems(_, _, _, _)
LayoutSystems(m, k, currentOffsetX, acc) ==
    IF k > Len(m.system_limits) THEN acc
    ELSE
    LET sl == m.system_limits[k]
        Mine(e) == e.system_id = sl
        Continue(result) ==
            LayoutSystems(m, k + 1, NextOffsetX(currentOffsetX, result),
                          AppendSystem(acc, sl, result))
    IN  IF /\ Len(SelectSeq(m.states, Mine)) = 0
           /\ Len(SelectSeq(m.process_operators, Mine)) = 0
           /\ Len(SelectSeq(m.technical_resources, Mine)) = 0
        THEN LayoutSystems(m, k + 1, currentOffsetX, acc)
        ELSE Continue(layoutSingleSystem(SelectSeq(m.states, Mine),
                                         SelectSeq(m.process_operators, Mine),
                                         SelectSeq(m.technical_resources, Mine),
                                         SelectSeq(m.flows, Mine), SelectSeq(m.usages, Mine),
                                         currentOffsetX, 0))

\* the result of the branch without system limits
SingleSystemResult(result) ==
    [ elements |-> deduplicateElements(result.elements),
      connections |-> result.connections,
      systemLimits |->
          IF Len(result.systemLimitBounds) > 0
          THEN << result.systemLimitBounds[1] @@ [id |-> 0] >> ELSE << >> ]

\* the result of the branch with system limits
MultiSystemResult(all) == [all EXCEPT !.elements = deduplicateElements(all.elements)]

layoutProcessModel(m) ==
    IF Len(m.system_limits) = 0
    THEN SingleSystemResult(layoutSingleSystem(m.states, m.process_operators,
                                               m.technical_resources, m.flows, m.usages,
                                               0, 0))
    ELSE MultiSystemResult(LayoutSystems(m, 1, 0,
             [elements |-> << >>, connections |-> << >>, systemLimits |-> << >>]))

(* ------------------------ building input models ------------------------ *)

MkState(id, type, placement, labelLen, sys) ==
    [id |-> id, state_type |-> type, placement |-> placement,
     labelLen |-> labelLen, system_id |-> sys]

MkPO(id, sys) == [id |-> id, system_id |-> sys]

MkTR(id, sys) == [id |-> id, system_id |-> sys]

MkFlow(id, src, tgt, type, sys) ==
    [id |-> id, source_ref |-> src, target_ref |-> tgt, flow_type |-> type,
     system_id |-> sys]

MkUsage(id, po, tr, sys) ==
    [id |-> id, process_operator_ref |-> po, technical_resource_ref |-> tr,
     system_id |-> sys]

MkModel(systems, states, pos, trs, flows, usages) ==
    [system_limits |-> systems, states |-> states, process_operators |-> pos,
     technical_resources |-> trs, flows |-> flows, usages |-> usages]

(* ---------------- the operator sequencer as a state machine ------------ *)

NumPO == 3

\* three states suffice for a cycle through three operators
SortStateIds == <<11, 12, 13>>

\* as many flows as a cycle through every state needs
MaxFlows == 2 * Len(SortStateIds)

\* The flows of one state as a code: bit p-1 set when operator p feeds the
\* state, bit n+p-1 set when the state feeds operator p.
Bit(code, k) == (code \div (2 ^ k)) % 2

RECURSIVE PopCount(_)
PopCount(code) == IF code = 0 THEN 0 ELSE (code % 2) + PopCount(code \div 2)

\* bits 2n and 2n+1 stand for a flow from and to an id that names nothing
CodeFlows(stateId, code, n) ==
    LET cand == [k \in 1..(2 * n + 2) |->
                    IF k <= n THEN <<k, stateId>>
                    ELSE IF k <= 2 * n THEN <<stateId, k - n>>
                    ELSE IF k = 2 * n + 1 THEN <<GhostId, stateId>>
                    ELSE <<stateId, GhostId>>]
        idx == SortAsc({k \in 1..(2 * n + 2) : Bit(code, k - 1) = 1})
    IN  [i \in 1..Len(idx) |-> cand[idx[i]]]

PlainFlows(pairs) ==
    [i \in 1..Len(pairs) |-> MkFlow(100 + i, pairs[i][1], pairs[i][2], "flow", 0)]

SortModel(n, codes) ==
    MkModel(<< >>,
            [i \in 1..Len(SortStateIds) |-> MkState(SortStateIds[i], "product", NoPlacement, 2, 0)],
            [i \in 1..n |-> MkPO(i, 0)],
            << >>,
            PlainFlows(CodeFlows(SortStateIds[1], codes[1], n)
                       \o CodeFlows(SortStateIds[2], codes[2], n)
                       \o CodeFlows(SortStateIds[3], codes[3], n)),
            << >>)

NoParser == fpbSource = Null /\ parser = Null /\ requests = Null

NoHook ==
    /\ currentState = Null /\ past = Null /\ future = Null
    /\ rendered = Null /\ calls = Null
    /\ viewport = Null /\ viewportRef = Null /\ isPanning = Null
    /\ gestures = Null /\ events = Null
    /\ NoParser

Idle ==
    /\ poSuccessors = Null /\ inDegree = Null /\ remaining = Null
    /\ poOrder = Null /\ poRank = Null /\ currentRank = Null /\ iterations = Null
    /\ affinities = Null /\ diagram = Null /\ routeIn = Null /\ routed = Null
    /\ NoHook

InitSort ==
    \* state ids play no role in the sort: the codes ascend over the states
    /\ \E n \in 0..NumPO :
          \E a \in 0..((4 ^ n) - 1) : \E b \in a..((4 ^ n) - 1) : \E c \in b..((4 ^ n) - 1) :
             /\ PopCount(a) + PopCount(b) + PopCount(c) <= MaxFlows
             /\ model = SortModel(n, <<a, b, c>>)
    /\ pc = "input"
    /\ Idle

\* entry of topologicalSortPOs up to the while loop
SortBegin ==
    /\ pc = "input"
    /\ LET graph == buildConnectivityGraph(model.states, model.process_operators,
                                            model.flows, model.usages)
           succ == BuildSuccessors(model.process_operators, model.states, graph)
           st == SortStart(model.process_operators, succ)
       IN  /\ poSuccessors' = succ
           /\ inDegree' = st.inDegree
           /\ remaining' = st.remaining
           /\ poOrder' = st.poOrder
           /\ poRank' = st.poRank
           /\ currentRank' = st.currentRank
    /\ iterations' = 0
    /\ pc' = "sorting"
    /\ UNCHANGED <<histVars, viewVars, parserVars>>
    /\ UNCHANGED <<model, affinities, diagram, routeIn, routed>>

\* one iteration of while (remaining.size > 0)
SortStep ==
    /\ pc = "sorting"
    /\ remaining # {}
    /\ LET st == SortIteration([inDegree |-> inDegree, remaining |-> remaining,
                                poOrder |-> poOrder, poRank |-> poRank,
                                currentRank |-> currentRank], poSuccessors)
       IN  /\ inDegree' = st.inDegree
           /\ remaining' = st.remaining
           /\ poOrder' = st.poOrder
           /\ poRank' = st.poRank
           /\ currentRank' = st.currentRank
    /\ iterations' = iterations + 1
    /\ UNCHANGED <<histVars, viewVars, parserVars>>
    /\ UNCHANGED <<model, pc, poSuccessors, affinities, diagram, routeIn, routed>>

\* the loop condition fails: return { poOrder, poRank }
SortReturn ==
    /\ pc = "sorting"
    /\ remaining = {}
    /\ pc' = "sorted"
    /\ UNCHANGED <<histVars, viewVars, parserVars>>
    /\ UNCHANGED <<model, poSuccessors, inDegree, remaining, poOrder, poRank,
                   currentRank, iterations, affinities, diagram, routeIn, routed>>

NextSort == SortBegin \/ SortStep \/ SortReturn

SpecSort == InitSort /\ [][NextSort]_vars

(* --------------------------- state classifier ------------------------- *)

NumClassPO == 2

StateTypes == {"product", "energy", "information"}

Placements == {NoPlacement, "boundary"} \cup ExplicitPlacements

\* State 11 takes every kind, annotation and set of flows (malformed ones
\* included); state 12 is an un-annotated product with at most one source
\* and one target operator, which puts the operators in precedence.
ClassifyModel(n, type, placement, code, src, tgt) ==
    MkModel(<< >>,
            <<MkState(11, type, placement, 2, 0), MkState(12, "product", NoPlacement, 2, 0)>>,
            [i \in 1..n |-> MkPO(i, 0)],
            << >>,
            PlainFlows(CodeFlows(11, code, n)
                       \o (IF src = 0 THEN << >> ELSE << <<src, 12>> >>)
                       \o (IF tgt = 0 THEN << >> ELSE << <<12, tgt>> >>)),
            << >>)

InitClassify ==
    /\ \E n \in 0..NumClassPO : \E type \in StateTypes : \E placement \in Placements :
          \E code \in 0..((4 ^ (n + 1)) - 1) : \E src \in 0..n : \E tgt \in 0..n :
             model = ClassifyModel(n, type, placement, code, src, tgt)
    /\ pc = "input"
    /\ Idle

\* Phases 0 to 3 of layoutSingleSystem
Classify ==
    /\ pc = "input"
    /\ LET graph == buildConnectivityGraph(model.states, model.process_operators,
                                            model.flows, model.usages)
           sorted == topologicalSortPOs(model.process_operators, model.states, graph)
       IN  /\ poOrder' = sorted.poOrder
           /\ poRank' = sorted.poRank
           /\ affinities' = assignStateAffinities(model.states, graph, sorted.poRank,
                                                  MaxRankOf(sorted))
    /\ pc' = "classified"
    /\ UNCHANGED <<histVars, viewVars, parserVars>>
    /\ UNCHANGED <<model, poSuccessors, inDegree, remaining, currentRank, iterations,
                   diagram, routeIn, routed>>

NextClassify == Classify

SpecClassify == InitClassify /\ [][NextClassify]_vars

(* ------------------------------ layout engine -------------------------- *)

MaxLayoutFlows == 4

LayoutTypes == {"product", "information"}

\* State 11 takes every annotation, two kinds, two label lengths and every
\* set of flows with two operators (malformed flows included); state 12 is
\* an un-annotated product; state 13 is absent, or an un-annotated
\* information state without flows or feeding one operator.
SingleModel(n, type, placement, labelLen, c11, c12, s13) ==
    MkModel(<< >>,
            <<MkState(11, type, placement, labelLen, 0),
              MkState(12, "product", NoPlacement, 2, 0)>>
            \o (IF s13 < 0 THEN << >>
                ELSE <<MkState(13, "information", NoPlacement, 2, 0)>>),
            [i \in 1..n |-> MkPO(i, 0)],
            << >>,
            PlainFlows(CodeFlows(11, c11, n) \o CodeFlows(12, c12, n)
                       \o (IF s13 > 0 THEN << <<13, s13>> >> ELSE << >>)),
            << >>)

\* One or two operators in a chain 11 -> 1 -> 12 (-> 2 -> 13), with up to two
\* technical resources; u[i] is the operator that resource 20+i is used by
\* (0: by none).
ResourceModel(n, u) ==
    MkModel(<< >>,
            [i \in 1..(n + 1) |-> MkState(10 + i, "product", NoPlacement, 2, 0)],
            [i \in 1..n |-> MkPO(i, 0)],
            [i \in 1..Len(u) |-> MkTR(20 + i, 0)],
            PlainFlows(Concat([i \in 1..n |-> << <<10 + i, i>>, <<i, 11 + i>> >>])),
            Concat([i \in 1..Len(u) |->
                      IF u[i] = 0 THEN << >> ELSE <<MkUsage(30 + i, u[i], 20 + i, 0)>>]))

\* t technical resources and nothing else
ResourcesOnlyModel(t) ==
    MkModel(<< >>, << >>, << >>, [i \in 1..t |-> MkTR(20 + i, 0)], << >>, << >>)

\* System k may hold operator k, and holds state 10+k with the flows coded by
\* c[k] (bit 0: operator -> state, bit 1: state -> operator); system 1 may
\* hold a technical resource used by operator 1; state 19 belongs to no
\* system; the state of the last system has a label of labelLen characters.
SystemsModel(k, hasPO, placement, labelLen, c, tr, stray) ==
    MkModel([i \in 1..k |-> i],
            [i \in 1..k |-> MkState(10 + i, "product",
                                    IF i = 1 THEN placement ELSE NoPlacement,
                                    IF i = k THEN labelLen ELSE 2, i)]
            \o (IF stray THEN <<MkState(19, "product", NoPlacement, 2, 0)>> ELSE << >>),
            Concat([i \in 1..k |-> IF hasPO[i] THEN <<MkPO(i, i)>> ELSE << >>]),
            IF tr THEN <<MkTR(21, 1)>> ELSE << >>,
            Concat([i \in 1..k |->
                      (IF Bit(c[i], 0) = 1
                       THEN <<MkFlow(100 + i, i, 10 + i, "flow", i)>> ELSE << >>)
                      \o (IF Bit(c[i], 1) = 1
                          THEN <<MkFlow(110 + i, 10 + i, i, "flow", i)>> ELSE << >>)]),
            IF tr THEN <<MkUsage(31, 1, 21, 1)>> ELSE << >>)

\* One state 11 and one operator 1, with the flows coded by c (bit 0:
\* 1 -> 11, bit 1: 11 -> 1).
OneStateModel(type, placement, labelLen, c) ==
    MkModel(<< >>, <<MkState(11, type, placement, labelLen, 0)>>, <<MkPO(1, 0)>>, << >>,
            PlainFlows(CodeFlows(11, c, 1)), << >>)

InitLayout ==
    /\ \/ \E n \in 0..2 : \E type \in LayoutTypes : \E placement \in Placements :
             \E labelLen \in {2, 12} :
             \E c11 \in 0..((4 ^ (n + 1)) - 1) : \E c12 \in 0..((4 ^ n) - 1) :
             \E s13 \in (0 - 1)..n :
                /\ PopCount(c11) + PopCount(c12) + (IF s13 > 0 THEN 1 ELSE 0)
                      <= MaxLayoutFlows
                /\ model = SingleModel(n, type, placement, labelLen, c11, c12, s13)
       \/ \E n \in 1..2 : \E t \in 0..2 : \E u \in [1..t -> 0..n] :
             model = ResourceModel(n, u)
       \/ \E type \in LayoutTypes : \E placement \in Placements : \E labelLen \in {2, 12} :
             \E c \in 1..3 :
                model = OneStateModel(type, placement, labelLen, c)
       \/ \E k \in 1..2 : \E hasPO \in [1..k -> BOOLEAN] : \E placement \in Placements :
             \E labelLen \in {2, 30} :
             \E c \in [1..k -> 0..3] : \E tr \in BOOLEAN : \E stray \in BOOLEAN :
                model = SystemsModel(k, hasPO, placement, labelLen, c, tr, stray)
       \/ \E t \in 1..2 : model = ResourcesOnlyModel(t)
    /\ pc = "input"
    /\ Idle

\* layoutProcessModel(model)
Layout ==
    /\ pc = "input"
    /\ diagram' = layoutProcessModel(model)
    /\ pc' = "laidOut"
    /\ UNCHANGED <<histVars, viewVars, parserVars>>
    /\ UNCHANGED <<model, poSuccessors, inDegree, remaining, poOrder, poRank, currentRank,
                   iterations, affinities, routeIn, routed>>

NextLayout == Layout

SpecLayout == InitLayout /\ [][NextLayout]_vars

(* -------------------------------- routing ------------------------------ *)

centerOf(el) == [x |-> el.x + el.width \div 2, y |-> el.y + el.height \div 2]

HasElement(elements, id) == \E i \in DOMAIN elements : elements[i].id = id

\* buildLookup(elements).get(id): a later element replaces an earlier one
\* with the same id
Lookup(elements, id) ==
    elements[MaxOf({i \in DOMAIN elements : elements[i].id = id})]

determineSide(from, to) ==
    LET fc == centerOf(from)
        tc == centerOf(to)
        dx == tc.x - fc.x
        dy == tc.y - fc.y
    IN  IF Abs(dy) >= Abs(dx)
        THEN (IF dy >= 0 THEN "bottom" ELSE "top")
        ELSE (IF dx >= 0 THEN "right" ELSE "left")

\* every port in the middle of the side
portPositionCentered(el, side, index, count) ==
    CASE side = "top" -> [x |-> el.x + el.width \div 2, y |-> el.y]
      [] side = "bottom" -> [x |-> el.x + el.width \div 2, y |-> el.y + el.height]
      [] side = "left" -> [x |-> el.x, y |-> el.y + el.height \div 2]
      [] side = "right" -> [x |-> el.x + el.width, y |-> el.y + el.height \div 2]

portPosition(el, side, index, count) ==
    CASE side = "top" ->
            [x |-> el.x + (el.width \div (count + 1)) * (index + 1), y |-> el.y]
      [] side = "bottom" ->
            [x |-> el.x + (el.width \div (count + 1)) * (index + 1),
             y |-> el.y + el.height]
      [] side = "left" ->
            [x |-> el.x, y |-> el.y + (el.height \div (count + 1)) * (index + 1)]
      [] side = "right" ->
            [x |-> el.x + el.width,
             y |-> el.y + (el.height \div (count + 1)) * (index + 1)]

\* a straight line whatever the sides
orthogonalWaypointsDirect(source, target, sourceSide, targetSide) == <<source, target>>

orthogonalWaypoints(source, target, sourceSide, targetSide) ==
    IF sourceSide \in {"bottom", "top"} /\ targetSide \in {"top", "bottom"}
    THEN IF source.x = target.x THEN <<source, target>>
         ELSE LET midY == (source.y + target.y) \div 2
              IN  <<source, [x |-> source.x, y |-> midY],
                    [x |-> target.x, y |-> midY], target>>
    ELSE IF sourceSide \in {"left", "right"} /\ targetSide \in {"left", "right"}
    THEN IF source.y = target.y THEN <<source, target>>
         ELSE LET midX == (source.x + target.x) \div 2
              IN  <<source, [x |-> midX, y |-> source.y],
                    [x |-> midX, y |-> target.y], target>>
    ELSE IF sourceSide \in {"bottom", "top"}
    THEN <<source, [x |-> source.x, y |-> target.y], target>>
    ELSE <<source, [x |-> target.x, y |-> source.y], target>>

\* Step 1: the meta of a connection with both ends found
RouteMeta(conn, source, target) ==
    [conn |-> conn, source |-> source, target |-> target,
     sourceSide |-> IF conn.sourceSide # "none" THEN conn.sourceSide
                    ELSE determineSide(source, target),
     targetSide |-> IF conn.targetSide # "none" THEN conn.targetSide
                    ELSE determineSide(target, source),
     isDirect |-> conn.flowType = "alternativeFlow"]

MetasOf(elements, conns) ==
    [i \in 1..Len(conns) |->
        RouteMeta(conns[i], Lookup(elements, conns[i].sourceId),
                  Lookup(elements, conns[i].targetId))]

\* Step 1: connections with a missing end are skipped
RouteMetas(elements, connections) ==
    LET Resolvable(c) ==
            HasElement(elements, c.sourceId) /\ HasElement(elements, c.targetId)
    IN  MetasOf(elements, SelectSeq(connections, Resolvable))

\* Step 1b left out: every connection keeps the side of Step 1
AlignSidesNot(metas) == metas

\* Step 1b: alternative (parallel) flows of one source element take the
\* source side of the first of them, and likewise for target elements
AlignSides(metas) ==
    LET FirstBySource(i) ==
            MinOf({j \in DOMAIN metas :
                      /\ metas[j].conn.flowType = metas[i].conn.flowType
                      /\ metas[j].source.id = metas[i].source.id})
        FirstByTarget(i) ==
            MinOf({j \in DOMAIN metas :
                      /\ metas[j].conn.flowType = metas[i].conn.flowType
                      /\ metas[j].target.id = metas[i].target.id})
    IN  [i \in DOMAIN metas |->
            IF metas[i].conn.flowType \in {"alternativeFlow", "parallelFlow"}
            THEN [metas[i] EXCEPT !.sourceSide = metas[FirstBySource(i)].sourceSide,
                                  !.targetSide = metas[FirstByTarget(i)].targetSide]
            ELSE metas[i]]

SourceKey(m) == <<m.source.id, m.sourceSide>>

TargetKey(m) == <<m.target.id, m.targetSide>>

\* Step 2: the entries of the port group of one (element, side)
GroupEntries(metas, key) ==
    Concat([i \in DOMAIN metas |->
              (IF SourceKey(metas[i]) = key
               THEN <<[metaIndex |-> i, role |-> "source"]>> ELSE << >>)
              \o (IF TargetKey(metas[i]) = key
                  THEN <<[metaIndex |-> i, role |-> "target"]>> ELSE << >>)])

\* entries.find((e) => e.metaIndex === mi)
FindEntry(entries, mi) ==
    entries[MinOf({k \in DOMAIN entries : entries[k].metaIndex = mi})]

RECURSIVE SumSeq(_)
SumSeq(s) == IF s = << >> THEN 0 ELSE Head(s) + SumSeq(Tail(s))

\* the average as the fraction total / count
avgConnectedPos(slot, entries, allMetas, useY) ==
    LET Pos(mi) ==
            LET entry == FindEntry(entries, mi)
                m == allMetas[mi]
                c == centerOf(IF entry.role = "source" THEN m.target ELSE m.source)
            IN  IF useY THEN c.y ELSE c.x
    IN  [total |-> SumSeq([k \in DOMAIN slot |-> Pos(slot[k])]), count |-> Len(slot)]

MetaIndices(entries) == [k \in DOMAIN entries |-> entries[k].metaIndex]

\* every alternative flow in a slot of its own
GroupSlotsOwnSlotEach(metas, entries) ==
    LET IsParallel(e) == metas[e.metaIndex].conn.flowType = "parallelFlow"
        IsOther(e) == ~IsParallel(e)
        regular == SelectSeq(entries, IsOther)
        parallelIndices == MetaIndices(SelectSeq(entries, IsParallel))
    IN  [k \in DOMAIN regular |-> <<regular[k].metaIndex>>]
        \o (IF parallelIndices # << >> THEN <<parallelIndices>> ELSE << >>)

\* Step 3: the anchor slots of a port group, before sorting
GroupSlots(metas, entries) ==
    LET IsAlternative(e) == metas[e.metaIndex].conn.flowType = "alternativeFlow"
        IsParallel(e) == metas[e.metaIndex].conn.flowType = "parallelFlow"
        IsRegular(e) == ~IsAlternative(e) /\ ~IsParallel(e)
        regular == SelectSeq(entries, IsRegular)
        alternativeIndices == MetaIndices(SelectSeq(entries, IsAlternative))
        parallelIndices == MetaIndices(SelectSeq(entries, IsParallel))
    IN  [k \in DOMAIN regular |-> <<regular[k].metaIndex>>]
        \o (IF alternativeIndices # << >> THEN <<alternativeIndices>> ELSE << >>)
        \o (IF parallelIndices # << >> THEN <<parallelIndices>> ELSE << >>)

\* a stable sort of the slots by their positions pos
SortByPos(slots, pos) ==
    LET Before(a, b) ==
            \/ pos[a].total * pos[b].count < pos[b].total * pos[a].count
            \/ /\ pos[a].total * pos[b].count = pos[b].total * pos[a].count
               /\ a < b
        Place(k) == 1 + Cardinality({j \in DOMAIN slots : Before(j, k)})
    IN  [p \in DOMAIN slots |-> slots[CHOOSE k \in DOMAIN slots : Place(k) = p]]

\* slots.sort((a, b) => posA - posB)
SortSlots(slots, entries, metas, useY) ==
    SortByPos(slots,
              [k \in DOMAIN slots |-> avgConnectedPos(slots[k], entries, metas, useY)])

\* the sorted slots of the port group with these entries
SortedSlots(metas, entries, side) ==
    SortSlots(GroupSlots(metas, entries), entries, metas, side \in {"left", "right"})

\* the port left for connection mi by the loop over the slots: the port of
\* the last slot that holds mi
SlotPort(element, side, slots, mi) ==
    portPosition(element, side,
                 MaxOf({p \in DOMAIN slots : mi \in SeqToSet(slots[p])}) - 1, Len(slots))

\* the port that the group of key writes for connection mi
GroupPort(elements, metas, key, mi) ==
    SlotPort(Lookup(elements, key[1]), key[2],
             SortedSlots(metas, GroupEntries(metas, key), key[2]), mi)

\* sourcePorts and targetPorts after Step 3; << >> is an index never written
RoutingPorts(elements, metas) ==
    [ sourcePorts |->
        [i \in DOMAIN metas |->
            IF FindEntry(GroupEntries(metas, SourceKey(metas[i])), i).role = "source"
            THEN <<GroupPort(elements, metas, SourceKey(metas[i]), i)>> ELSE << >>],
      targetPorts |->
        [i \in DOMAIN metas |->
            IF FindEntry(GroupEntries(metas, TargetKey(metas[i])), i).role = "target"
            THEN <<GroupPort(elements, metas, TargetKey(metas[i]), i)>> ELSE << >>] ]

\* orthogonal waypoints for every flow type
RoutedConnectionOrthogonal(m, sp, tp) ==
    [connection |-> m.conn,
     points |-> orthogonalWaypoints(sp, tp, m.sourceSide, m.targetSide),
     isDirect |-> m.isDirect]

\* Step 4: the routed connection of meta m
RoutedConnection(m, sp, tp) ==
    [connection |-> m.conn,
     points |-> IF m.isDirect THEN <<sp, tp>>
                ELSE orthogonalWaypoints(sp, tp, m.sourceSide, m.targetSide),
     isDirect |-> m.isDirect]

\* Step 4, over the indices kept: those with both ports written
RoutedList(metas, ports, kept) ==
    [k \in DOMAIN kept |->
        RoutedConnection(metas[kept[k]], ports.sourcePorts[kept[k]][1],
                         ports.targetPorts[kept[k]][1])]

RouteWithPorts(metas, ports) ==
    [ metas |-> metas,
      sourcePorts |-> ports.sourcePorts,
      targetPorts |-> ports.targetPorts,
      result |-> RoutedList(metas, ports,
                    SortAsc({i \in DOMAIN metas :
                        ports.sourcePorts[i] # << >> /\ ports.targetPorts[i] # << >>})) ]

RouteWithMetas(elements, metas) == RouteWithPorts(metas, RoutingPorts(elements, metas))

\* the result holds the returned list (result) next to the metas and ports
\* it was built from
computeRouting(elements, connections) ==
    RouteWithMetas(elements, AlignSides(RouteMetas(elements, connections)))

NumRouteStates == 2

RouteSides == <<"boundary-top", "boundary-bottom", "boundary-left", "boundary-right">>

\* the elements that the layout engine produces for one operator and states
\* 11, 12, ... annotated with the sides from position v on
RouteElements(v) ==
    layoutProcessModel(
        MkModel(<< >>,
                [i \in 1..NumRouteStates |->
                    MkState(10 + i, "product", RouteSides[((i - 1 + v) % 4) + 1], 2, 0)],
                <<MkPO(1, 0)>>, << >>,
                PlainFlows([i \in 1..NumRouteStates |-> <<10 + i, 1>>]),
                << >>)).elements

RoutePairs ==
    {<<1, 10 + i>> : i \in 1..NumRouteStates} \cup {<<10 + i, 1>> : i \in 1..NumRouteStates}
    \cup {<<11, 12>>, <<1, 1>>, <<11, GhostId>>}

RouteFlowTypes == {"flow", "alternativeFlow", "parallelFlow"}

\* <<pair, flow type, hinted>>; the hinted connections carry the sides that
\* the layout engine gives a flow into a feedback state; "usage" stands for
\* a usage connection, from the operator to another element
RouteChoices ==
    (RoutePairs \X RouteFlowTypes \X {FALSE})
    \cup ({<<1, 11>>} \X RouteFlowTypes \X {TRUE})
    \cup ({<<1, 10 + i>> : i \in 1..NumRouteStates} \X {"usage"} \X {FALSE})

RouteConnection(id, choice) ==
    [ id |-> id, sourceId |-> choice[1][1], targetId |-> choice[1][2],
      flowType |-> IF choice[2] = "usage" THEN "none" ELSE choice[2],
      isUsage |-> choice[2] = "usage",
      sourceSide |-> IF choice[3] THEN "left" ELSE "none",
      targetSide |-> IF choice[3] THEN "bottom" ELSE "none" ]

InitRoute ==
    /\ \E v \in {0, 2} : \E elements \in {RouteElements(v)} :
          \E k \in 0..3 : \E cs \in [1..k -> RouteChoices] :
             routeIn = [ elements |-> elements,
                         connections |-> [i \in 1..k |-> RouteConnection(100 + i, cs[i])] ]
    /\ pc = "input"
    /\ model = Null /\ poSuccessors = Null /\ inDegree = Null /\ remaining = Null
    /\ poOrder = Null /\ poRank = Null /\ currentRank = Null /\ iterations = Null
    /\ affinities = Null /\ diagram = Null /\ routed = Null
    /\ NoHook

\* computeRouting(elements, connections)
Route ==
    /\ pc = "input"
    /\ routed' = computeRouting(routeIn.elements, routeIn.connections)
    /\ pc' = "routed"
    /\ UNCHANGED <<histVars, viewVars, parserVars>>
    /\ UNCHANGED <<model, poSuccessors, inDegree, remaining, poOrder, poRank, currentRank,
                   iterations, affinities, diagram, routeIn>>

NextRoute == Route

SpecRoute == InitRoute /\ [][NextRoute]_vars

(* --------------------------- useHistoryManager ------------------------- *)

\* options.maxHistory
maxHistory == 2

\* the number of calls made on one hook
MaxCalls == 5

\* the application states (strings in the code); 0 is initialState
initialState == 0

HistoryValues == 0..(maxHistory + 1)

\* the array a setPast updater of pushState and redo returns
LimitHistory(newPast) ==
    IF Len(newPast) > maxHistory
    THEN SubSeq(newPast, Len(newPast) - maxHistory + 1, Len(newPast))
    ELSE newPast

\* the order of the calls so far: pushes, then undos, then redos; pushed
\* holds the pushed values, ordered tells whether the order was kept and
\* every pushed value differed from the value pushed before it and from
\* the currentState the hook returned last; fresh tells that a state was
\* pushed and nothing was undone or cleared since
Called(pushed, undone, redone, ordered, fresh) ==
    [pushed |-> pushed, undone |-> undone, redone |-> redone, ordered |-> ordered,
     fresh |-> fresh, total |-> calls.total + 1]

\* the layout and routing engine is not running
NoEngine ==
    /\ model = Null
    /\ poSuccessors = Null /\ inDegree = Null /\ remaining = Null
    /\ poOrder = Null /\ poRank = Null /\ currentRank = Null /\ iterations = Null
    /\ affinities = Null /\ diagram = Null /\ routeIn = Null /\ routed = Null

\* const [currentState, setCurrentState] = useState(initialState), ...
InitHistory ==
    /\ currentState = initialState
    /\ past = << >>
    /\ future = << >>
    /\ rendered = [currentState |-> initialState, past |-> << >>, future |-> << >>]
    /\ calls = [pushed |-> << >>, undone |-> 0, redone |-> 0, ordered |-> TRUE,
                fresh |-> FALSE, total |-> 0]
    /\ pc = "hook"
    /\ NoEngine
    /\ viewport = Null /\ viewportRef = Null /\ isPanning = Null
    /\ gestures = Null /\ events = Null
    /\ NoParser

engineVars == <<model, pc, poSuccessors, inDegree, remaining, poOrder, poRank,
                currentRank, iterations, affinities, diagram, routeIn, routed>>

\* the value the caller takes for current after the calls so far
LastPushed == IF Len(calls.pushed) = 0 THEN initialState ELSE calls.pushed[Len(calls.pushed)]

\* pushState(newState), as the callback of the last render
pushState(newState) ==
    /\ pc = "hook"
    /\ calls.total < MaxCalls
    /\ IF newState = rendered.currentState
       THEN UNCHANGED <<currentState, past, future>>
       ELSE /\ past' = LimitHistory(Append(past, rendered.currentState))
            /\ future' = << >>
            /\ currentState' = newState
    /\ calls' = Called(Append(calls.pushed, newState), calls.undone, calls.redone,
                       /\ calls.ordered /\ calls.undone = 0 /\ calls.redone = 0
                       /\ newState # LastPushed /\ newState # rendered.currentState,
                       calls.fresh \/ newState # rendered.currentState)
    /\ UNCHANGED rendered
    /\ UNCHANGED <<engineVars, viewVars, parserVars>>

\* undo(), as the callback of the last render
undo ==
    /\ pc = "hook"
    /\ calls.total < MaxCalls
    /\ IF Len(rendered.past) = 0
       THEN UNCHANGED <<currentState, past, future>>
       ELSE /\ future' = Append(future, rendered.currentState)
            /\ past' = SubSeq(rendered.past, 1, Len(rendered.past) - 1)
            /\ currentState' = rendered.past[Len(rendered.past)]
    /\ calls' = Called(calls.pushed, calls.undone + 1, calls.redone,
                       calls.ordered /\ calls.redone = 0, FALSE)
    /\ UNCHANGED rendered
    /\ UNCHANGED <<engineVars, viewVars, parserVars>>

\* redo(), as the callback of the last render
redo ==
    /\ pc = "hook"
    /\ calls.total < MaxCalls
    /\ IF Len(rendered.future) = 0
       THEN UNCHANGED <<currentState, past, future>>
       ELSE /\ past' = LimitHistory(Append(past, rendered.currentState))
            /\ future' = SubSeq(rendered.future, 1, Len(rendered.future) - 1)
            /\ currentState' = rendered.future[Len(rendered.future)]
    /\ calls' = Called(calls.pushed, calls.undone, calls.redone + 1, calls.ordered,
                       calls.fresh)
    /\ UNCHANGED rendered
    /\ UNCHANGED <<engineVars, viewVars, parserVars>>

\* clear()
clear ==
    /\ pc = "hook"
    /\ calls.total < MaxCalls
    /\ past' = << >>
    /\ future' = << >>
    /\ currentState' = initialState
    /\ calls' = Called(calls.pushed, calls.undone, calls.redone, FALSE, FALSE)
    /\ UNCHANGED rendered
    /\ UNCHANGED <<engineVars, viewVars, parserVars>>

\* React applies the queued updates and renders the hook again: the
\* callbacks now see the new cells
Render ==
    /\ pc = "hook"
    /\ rendered # [currentState |-> currentState, past |-> past, future |-> future]
    /\ rendered' = [currentState |-> currentState, past |-> past, future |-> future]
    /\ UNCHANGED <<currentState, past, future, calls>>
    /\ UNCHANGED <<engineVars, viewVars, parserVars>>

NextHistory ==
    \/ \E newState \in HistoryValues : pushState(newState)
    \/ undo
    \/ redo
    \/ clear
    \/ Render

SpecHistory == InitHistory /\ [][NextHistory]_vars

(* ------------------------------ useViewport ---------------------------- *)

\* a zoom of 1.0
ZoomUnit == 1000

MIN_ZOOM == 100
MAX_ZOOM == 4000
ZOOM_STEP == 100
ZOOM_TO_FIT_PADDING == 30
ZOOM_TO_FIT_MAX == 1000

\* the number of events one viewport handles
MaxEvents == 4

\* the distances between two touch points, in pixels
MaxDistance == 2

\* floating point numbers
Finite(v) == [kind |-> "finite", v |-> v]
NaN == [kind |-> "NaN", v |-> 0]
Infinity == [kind |-> "Infinity", v |-> 0]

\* z * (num / den) for a zoom z > 0 or NaN and num, den >= 0: x / 0 is
\* Infinity, 0 / 0 is NaN, and NaN stays NaN; a finite result may be
\* negative (wheel) and is rounded down to the unit
Scaled(z, num, den) ==
    IF z.kind = "NaN" THEN NaN
    ELSE IF den = 0 THEN (IF num = 0 THEN NaN ELSE Infinity)
    ELSE Finite((z.v * num) \div den)

\* z + d
Plus(z, d) == IF z.kind = "NaN" THEN NaN ELSE Finite(z.v + d)

\* Math.min(Math.max(zoom, MIN_ZOOM), MAX_ZOOM): NaN stays NaN
clampZoom(zoom) ==
    IF zoom.kind = "NaN" THEN NaN
    ELSE IF zoom.kind = "Infinity" THEN Finite(MAX_ZOOM)
    ELSE Finite(Min2(Max2(zoom.v, MIN_ZOOM), MAX_ZOOM))

INITIAL_VIEWPORT == [zoom |-> Finite(ZoomUnit)]

NoGesture == [mouse |-> << >>, pan |-> << >>, pinch |-> << >>]

InitViewport ==
    /\ viewport = INITIAL_VIEWPORT
    /\ viewportRef = INITIAL_VIEWPORT
    /\ isPanning = FALSE
    /\ gestures = NoGesture
    /\ events = 0
    /\ pc = "viewport"
    /\ NoEngine
    /\ currentState = Null /\ past = Null /\ future = Null
    /\ rendered = Null /\ calls = Null
    /\ NoParser

\* an event arrives and leaves the engine and the history alone
Event ==
    /\ pc = "viewport"
    /\ events < MaxEvents
    /\ events' = events + 1
    /\ UNCHANGED <<engineVars, histVars, parserVars>>

zoomIn ==
    /\ Event
    /\ viewport' = [zoom |-> clampZoom(Plus(viewport.zoom, ZOOM_STEP))]
    /\ UNCHANGED <<viewportRef, isPanning, gestures>>

zoomOut ==
    /\ Event
    /\ viewport' = [zoom |-> clampZoom(Plus(viewport.zoom, 0 - ZOOM_STEP))]
    /\ UNCHANGED <<viewportRef, isPanning, gestures>>

resetViewport ==
    /\ Event
    /\ viewport' = INITIAL_VIEWPORT
    /\ UNCHANGED <<viewportRef, isPanning, gestures>>

\* Math.min(scaleX, scaleY, ZOOM_TO_FIT_MAX)
FitScale(width, height, containerWidth, containerHeight) ==
    Min2(Min2((containerWidth * ZoomUnit) \div (width + ZOOM_TO_FIT_PADDING * 2),
              (containerHeight * ZoomUnit) \div (height + ZOOM_TO_FIT_PADDING * 2)),
         ZOOM_TO_FIT_MAX)

zoomToFit(width, height, containerWidth, containerHeight) ==
    /\ Event
    /\ viewport' =
          IF width <= 0 \/ height <= 0 \/ containerWidth <= 0 \/ containerHeight <= 0
          THEN INITIAL_VIEWPORT
          ELSE [zoom |-> clampZoom(Finite(FitScale(width, height,
                                                   containerWidth, containerHeight)))]
    /\ UNCHANGED <<viewportRef, isPanning, gestures>>

\* prev.zoom * (1 + -e.deltaY * WHEEL_ZOOM_SENSITIVITY), the sensitivity
\* being 1/1000; a rectangle without width or height is ignored
handleWheel(deltaY, hasRect) ==
    /\ Event
    /\ viewport' = IF hasRect
                   THEN [zoom |-> clampZoom(Scaled(viewport.zoom, 1000 - deltaY, 1000))]
                   ELSE viewport
    /\ UNCHANGED <<viewportRef, isPanning, gestures>>

\* left button on the background
handleMouseDown ==
    /\ Event
    /\ isPanning' = TRUE
    /\ gestures' = [gestures EXCEPT !.mouse = <<viewportRef>>]
    /\ UNCHANGED <<viewport, viewportRef>>

onMouseMove ==
    /\ Event
    /\ gestures.mouse # << >>
    /\ viewport' = [zoom |-> gestures.mouse[1].zoom]
    /\ UNCHANGED <<viewportRef, isPanning, gestures>>

onMouseUp ==
    /\ Event
    /\ gestures.mouse # << >>
    /\ isPanning' = FALSE
    /\ gestures' = [gestures EXCEPT !.mouse = << >>]
    /\ UNCHANGED <<viewport, viewportRef>>

\* handleTouchStart with one touch (distance 0 - 1) or with two touches
\* that are distance pixels apart
handleTouchStart(touches, distance) ==
    /\ Event
    /\ gestures' = IF touches = 1
                   THEN [gestures EXCEPT !.pan = <<viewportRef>>]
                   ELSE [gestures EXCEPT !.pinch = <<[lastDistance |-> distance,
                                                      currentViewport |-> viewportRef]>>]
    /\ UNCHANGED <<viewport, viewportRef, isPanning>>

\* the touchmove listeners of the gestures in progress: the pan listener
\* acts on one touch, the pinch listener on two
onTouchMove(touches, newDistance) ==
    /\ Event
    /\ IF touches = 1
       THEN /\ gestures.pan # << >>
            /\ viewport' = [zoom |-> gestures.pan[1].zoom]
            /\ UNCHANGED gestures
       ELSE /\ gestures.pinch # << >>
            /\ viewport' = [zoom |-> clampZoom(Scaled(gestures.pinch[1].currentViewport.zoom,
                                                      newDistance,
                                                      gestures.pinch[1].lastDistance))]
            /\ gestures' = [gestures EXCEPT !.pinch = <<[lastDistance |-> newDistance,
                                                         currentViewport |-> viewport']>>]
    /\ UNCHANGED <<viewportRef, isPanning>>

\* touchend or touchcancel: the listeners of both touch gestures go
onTouchEnd ==
    /\ Event
    /\ gestures.pan # << >> \/ gestures.pinch # << >>
    /\ gestures' = [gestures EXCEPT !.pan = << >>, !.pinch = << >>]
    /\ UNCHANGED <<viewport, viewportRef, isPanning>>

\* the hook renders again: viewportRef.current = viewport
RenderViewport ==
    /\ pc = "viewport"
    /\ viewportRef # viewport
    /\ viewportRef' = viewport
    /\ UNCHANGED <<viewport, isPanning, gestures, events>>
    /\ UNCHANGED <<engineVars, histVars, parserVars>>

FitSizes == {0, 40, 9940}
ContainerSizes == {0, 100, 800}
WheelDeltas == {0 - 1000, 100, 500, 2000}

NextViewport ==
    \/ zoomIn
    \/ zoomOut
    \/ resetViewport
    \/ \E w, h \in FitSizes : \E cw, ch \in ContainerSizes : zoomToFit(w, h, cw, ch)
    \/ \E deltaY \in WheelDeltas : \E hasRect \in BOOLEAN : handleWheel(deltaY, hasRect)
    \/ handleMouseDown
    \/ onMouseMove
    \/ onMouseUp
    \/ \E touches \in 1..2 : \E d \in 0..MaxDistance : handleTouchStart(touches, d)
    \/ \E touches \in 1..2 : \E d \in 0..MaxDistance : onTouchMove(touches, d)
    \/ onTouchEnd
    \/ RenderViewport

SpecViewport == InitViewport /\ [][NextViewport]_vars

(* ------------------------------ useFpbParser --------------------------- *)

MaxRequests == 3

SessionIds == {1, 2}

\* the source texts: empty, whitespace only, and two texts to parse
Sources == {"", " ", "a", "b"}

\* String.prototype.trim on the source texts
trim(text) == IF text = " " THEN "" ELSE text

\* errors.join("\n")
RECURSIVE join(_)
join(errors) ==
    IF Len(errors) = 0 THEN ""
    ELSE IF Len(errors) = 1 THEN errors[1]
    ELSE errors[1] \o "\n" \o join(Tail(errors))

\* controller.signal.aborted, for the controller of a request
\* a signal that never reads as aborted
AbortedNever(request) == FALSE

Aborted(request) == request.aborted

\* abortRef.current?.abort(); ref 0 is null, ref i the controller of request i
Abort(reqs, ref) == IF ref = 0 THEN reqs ELSE [reqs EXCEPT ![ref].aborted = TRUE]

\* the promise of request i settles, as the next one in the order of arrival
Settle(reqs, i, promise) ==
    [reqs EXCEPT ![i].promise = promise,
                 ![i].settled = 1 + Cardinality({j \in DOMAIN reqs : reqs[j].settled > 0})]

\* the body of the effect on [source, debounceMs, parse], after the cleanup
\* of the effect before it has cleared its timer
SourceEffect(p, text) ==
    IF trim(text) = ""
    THEN [p EXCEPT !.model = Null, !.error = Null, !.timer = Null]
    ELSE [p EXCEPT !.timer = [text |-> text]]

\* the first render and its effects
InitParser ==
    /\ \E text \in Sources :
          /\ fpbSource = text
          /\ parser = SourceEffect([model |-> Null, error |-> Null, loading |-> FALSE,
                                    sessionIdRef |-> 0, abortRef |-> 0, timer |-> Null,
                                    mounted |-> TRUE], text)
    /\ requests = << >>
    /\ pc = "parser"
    /\ NoEngine
    /\ currentState = Null /\ past = Null /\ future = Null
    /\ rendered = Null /\ calls = Null
    /\ viewport = Null /\ viewportRef = Null /\ isPanning = Null
    /\ gestures = Null /\ events = Null

\* the component renders the hook with another source text
SourceChanges(text) ==
    /\ pc = "parser"
    /\ parser.mounted
    /\ text # fpbSource
    /\ fpbSource' = text
    /\ parser' = SourceEffect(parser, text)
    /\ UNCHANGED requests
    /\ UNCHANGED <<engineVars, histVars, viewVars>>

\* parse(text), up to the await
parse(text) ==
    /\ requests' = Append(Abort(requests, parser.abortRef),
                          [text |-> text, session_id |-> parser.sessionIdRef,
                           aborted |-> FALSE, promise |-> "pending", settled |-> 0])
    /\ parser' = [parser EXCEPT !.abortRef = Len(requests) + 1,
                                !.loading = TRUE, !.error = Null, !.timer = Null]

\* the debounce timer fires: parse(source) with the source of its effect
TimerFires ==
    /\ pc = "parser"
    /\ parser.timer # Null
    /\ Len(requests) < MaxRequests
    /\ parse(parser.timer.text)
    /\ UNCHANGED fpbSource
    /\ UNCHANGED <<engineVars, histVars, viewVars>>

\* the cells after the response of a request that was not aborted
AfterResponse(p, response) ==
    [p EXCEPT !.sessionIdRef = response.session_id,
              !.model = response.model,
              !.error = IF Len(response.model.errors) > 0
                        THEN [message |-> join(response.model.errors)] ELSE Null,
              !.loading = FALSE]

\* parseSource of request i resolves with a response
Resolves(i, response) ==
    /\ pc = "parser"
    /\ i \in DOMAIN requests
    /\ requests[i].promise = "pending"
    /\ response.model.source = requests[i].text
    /\ requests' = Settle(requests, i, "fulfilled")
    /\ parser' = IF Aborted(requests[i]) THEN parser ELSE AfterResponse(parser, response)
    /\ UNCHANGED fpbSource
    /\ UNCHANGED <<engineVars, histVars, viewVars>>

\* parseSource of request i rejects with err
Rejects(i, err) ==
    /\ pc = "parser"
    /\ i \in DOMAIN requests
    /\ requests[i].promise = "pending"
    /\ requests' = Settle(requests, i, "rejected")
    /\ parser' = IF Aborted(requests[i]) THEN parser
                 ELSE [parser EXCEPT
                          !.error = [message |-> IF err.isError THEN err.message
                                                 ELSE "Parse request failed"],
                          !.loading = FALSE]
    /\ UNCHANGED fpbSource
    /\ UNCHANGED <<engineVars, histVars, viewVars>>

\* the component unmounts: the cleanups of both effects run
Unmount ==
    /\ pc = "parser"
    /\ parser.mounted
    /\ parser' = [parser EXCEPT !.mounted = FALSE, !.timer = Null]
    /\ requests' = Abort(requests, parser.abortRef)
    /\ UNCHANGED fpbSource
    /\ UNCHANGED <<engineVars, histVars, viewVars>>

\* what the backend makes of a text: the model names the text it was parsed
\* from
Responses ==
    {[session_id |-> sid, model |-> [source |-> text, errors |-> errors]] :
        sid \in SessionIds, text \in Sources, errors \in {<< >>, <<"e1", "e2">>}}

Failures == {[isError |-> TRUE, message |-> "Network Error"], [isError |-> FALSE]}

NextParser ==
    \/ \E text \in Sources : SourceChanges(text)
    \/ TimerFires
    \/ \E i \in 1..MaxRequests : \E response \in Responses : Resolves(i, response)
    \/ \E i \in 1..MaxRequests : \E err \in Failures : Rejects(i, err)
    \/ Unmount

SpecParser == InitParser /\ [][NextParser]_vars

(* ------------------------- operator sequencer: claims ------------------ *)

OperatorIds == {model.process_operators[i].id : i \in 1..Len(model.process_operators)}

\* C1: when topologicalSortPOs returns, every operator of the input has one
\* rank, the ranks of distinct operators differ, and the ranks are exactly
\* 0..n-1; poOrder lists the operators by rank.
C1_RanksTotalAndDistinct ==
    pc = "sorted" =>
        /\ DOMAIN poRank = OperatorIds
        /\ \A p, q \in OperatorIds : p # q => poRank[p] # poRank[q]
        /\ {poRank[p] : p \in OperatorIds} = 0..(Cardinality(OperatorIds) - 1)
        /\ Len(poOrder) = Cardinality(OperatorIds)
        /\ \A i \in 1..Len(poOrder) : poRank[poOrder[i]] = i - 1

\* three operators of which two share a topological level (1 -> 2, 1 -> 3)
C1_Witness ==
    /\ pc = "sorted"
    /\ Cardinality(OperatorIds) = 3
    /\ poSuccessors[1] = {2, 3} /\ poSuccessors[2] = {} /\ poSuccessors[3] = {}
    /\ iterations = 2
    /\ poRank[2] = 1 /\ poRank[3] = 2

\* C2: every iteration of the while loop removes at least one operator from
\* remaining, and the loop never runs more than |operators| iterations.
C2_LoopTerminates ==
    [][SortStep => /\ remaining' \subseteq remaining
                   /\ remaining' # remaining
                   /\ iterations' <= Cardinality(OperatorIds)]_vars

\* the cycle 1 -> 2 -> 3 -> 1 through three intermediate states, sorted
C2_Witness ==
    /\ pc = "sorted"
    /\ poSuccessors = (1 :> {2} @@ 2 :> {3} @@ 3 :> {1})
    /\ iterations = 3
    /\ remaining = {}

(* --------------------------- state classifier: claims ------------------ *)

StateOf(i) == model.states[i]

\* the operators a state feeds, and the operators that feed it
OpsFedBy(sid) ==
    {model.flows[i].target_ref : i \in {j \in 1..Len(model.flows) :
        model.flows[j].source_ref = sid /\ model.flows[j].target_ref \in OperatorIds}}

OpsFeeding(sid) ==
    {model.flows[i].source_ref : i \in {j \in 1..Len(model.flows) :
        model.flows[j].target_ref = sid /\ model.flows[j].source_ref \in OperatorIds}}

HasFlow(sid) ==
    \E i \in 1..Len(model.flows) :
        model.flows[i].source_ref = sid \/ model.flows[i].target_ref = sid

PureSource(sid) == OpsFedBy(sid) # {} /\ OpsFeeding(sid) = {}

PureSink(sid) == OpsFeeding(sid) # {} /\ OpsFedBy(sid) = {}

TopRank == Len(poOrder) - 1

CategoryOf(sid) == affinities[sid].category

\* the side of a pure source or sink, with the rank refinement for products
SideWithRank(s) ==
    IF PureSource(s.id)
    THEN IF s.state_type # "product" THEN "boundary-left"
         ELSE IF \A o \in OpsFedBy(s.id) : poRank[o] > 0 THEN "boundary-left"
         ELSE "boundary-top"
    ELSE IF s.state_type # "product" THEN "boundary-right"
         ELSE IF \A o \in OpsFeeding(s.id) : poRank[o] < TopRank THEN "boundary-right"
         ELSE "boundary-bottom"

\* the side of a pure source or sink by role and kind alone
SideByKind(s) ==
    IF PureSource(s.id)
    THEN (IF s.state_type = "product" THEN "boundary-top" ELSE "boundary-left")
    ELSE (IF s.state_type = "product" THEN "boundary-bottom" ELSE "boundary-right")

\* C5: a state annotated boundary-top, boundary-bottom, boundary-left,
\* boundary-right or internal is classified as exactly that category,
\* whatever its edges are.
C5_ExplicitPlacementWins ==
    pc = "classified" =>
        \A i \in 1..Len(model.states) :
            StateOf(i).placement \in ExplicitPlacements
                => CategoryOf(StateOf(i).id) = StateOf(i).placement

\* C6 as claimed: a state annotated `boundary` that is a pure source or a
\* pure sink gets its side from role and kind alone.
C6_BoundarySideByKindOnly ==
    pc = "classified" =>
        \A i \in 1..Len(model.states) :
            (StateOf(i).placement = "boundary"
             /\ (PureSource(StateOf(i).id) \/ PureSink(StateOf(i).id)))
                => CategoryOf(StateOf(i).id) = SideByKind(StateOf(i))

\* C6 as amended: for a state annotated `boundary`, a pure-source product is
\* boundary-top unless every operator it feeds has rank > 0 (then
\* boundary-left), a pure-sink product is boundary-bottom unless every
\* operator feeding it has rank < max rank (then boundary-right); a
\* pure-source non-product is boundary-left, a pure-sink one boundary-right.
C6_BoundarySideWithRank ==
    pc = "classified" =>
        \A i \in 1..Len(model.states) :
            (StateOf(i).placement = "boundary"
             /\ (PureSource(StateOf(i).id) \/ PureSink(StateOf(i).id)))
                => CategoryOf(StateOf(i).id) = SideWithRank(StateOf(i))

\* an annotated pure-source product that feeds only the operator of rank 1
C6_Witness ==
    /\ pc = "classified"
    /\ StateOf(1).placement = "boundary" /\ StateOf(1).state_type = "product"
    /\ PureSource(11) /\ OpsFedBy(11) = {2} /\ poRank[2] = 1
    /\ CategoryOf(11) = "boundary-left"

\* C7: an un-annotated state with source and target operators is internal;
\* a pure source or pure sink gets the side of its role and kind, products
\* with the rank refinement.
C7_AutomaticClassification ==
    pc = "classified" =>
        \A i \in 1..Len(model.states) :
            StateOf(i).placement = NoPlacement =>
                /\ (OpsFedBy(StateOf(i).id) # {} /\ OpsFeeding(StateOf(i).id) # {})
                       => CategoryOf(StateOf(i).id) = "internal"
                /\ (PureSource(StateOf(i).id) \/ PureSink(StateOf(i).id))
                       => CategoryOf(StateOf(i).id) = SideWithRank(StateOf(i))

\* an un-annotated pure-sink product fed only by the operator of rank 0 of two
C7_Witness ==
    /\ pc = "classified"
    /\ StateOf(1).placement = NoPlacement /\ StateOf(1).state_type = "product"
    /\ PureSink(11) /\ OpsFeeding(11) = {2} /\ poRank[2] = 0 /\ TopRank = 1
    /\ CategoryOf(11) = "boundary-right"

\* C8: an un-annotated state all of whose flows are malformed is classified
\* like a state without flows: disconnected.
C8_MalformedOnlyIsDisconnected ==
    pc = "classified" =>
        \A i \in 1..Len(model.states) :
            (/\ StateOf(i).placement = NoPlacement
             /\ HasFlow(StateOf(i).id)
             /\ OpsFedBy(StateOf(i).id) = {} /\ OpsFeeding(StateOf(i).id) = {})
                => CategoryOf(StateOf(i).id) = "disconnected"

(* ------------------------------ layout: claims ------------------------- *)

LaidOut == pc = "laidOut"

ElementIds == {diagram.elements[i].id : i \in DOMAIN diagram.elements}

Overlap(a, b) ==
    /\ a.x < b.x + b.width /\ b.x < a.x + a.width
    /\ a.y < b.y + b.height /\ b.y < a.y + a.height

\* C3: no two distinct elements of the layout result have overlapping
\* bounding rectangles.
C3_NoOverlap ==
    LaidOut =>
        \A i, j \in DOMAIN diagram.elements :
            i < j => ~Overlap(diagram.elements[i], diagram.elements[j])

\* C4: every connection of the layout result has a sourceId and a targetId
\* that are ids of elements of the same result.
C4_ConnectionsResolve ==
    LaidOut =>
        \A i \in DOMAIN diagram.connections :
            /\ diagram.connections[i].sourceId \in ElementIds
            /\ diagram.connections[i].targetId \in ElementIds

\* C9: every element id is unique within the elements array returned by
\* layoutProcessModel.
C9_ElementIdsUnique ==
    LaidOut =>
        \A i, j \in DOMAIN diagram.elements :
            i # j => diagram.elements[i].id # diagram.elements[j].id

\* a single-system model with an operator that no flow references: the
\* operator is emitted in the lane and in the disconnected row, and one
\* element is left in the result
C9_Witness ==
    /\ LaidOut
    /\ model.system_limits = << >>
    /\ \E i \in DOMAIN model.process_operators :
          LET po == model.process_operators[i].id IN
          /\ \A k \in DOMAIN model.flows :
                model.flows[k].source_ref # po /\ model.flows[k].target_ref # po
          /\ po \in ElementIds
    /\ Len(model.flows) > 0

(* ------------------------------ routing: claims ------------------------ *)

Routed == pc = "routed"

RouteKeys ==
    {SourceKey(routed.metas[i]) : i \in DOMAIN routed.metas}
    \cup {TargetKey(routed.metas[i]) : i \in DOMAIN routed.metas}

\* the connections of one flow type attached to a side, as source or target
AttachedTo(key, flowType) ==
    {i \in DOMAIN routed.metas :
        /\ routed.metas[i].conn.flowType = flowType
        /\ (SourceKey(routed.metas[i]) = key \/ TargetKey(routed.metas[i]) = key)}

\* the port points assigned to connection i on the side key
PortsOn(key, i) ==
    (IF SourceKey(routed.metas[i]) = key THEN SeqToSet(routed.sourcePorts[i]) ELSE {})
    \cup (IF TargetKey(routed.metas[i]) = key THEN SeqToSet(routed.targetPorts[i]) ELSE {})

\* C10: on every (element, side) all alternative-flow connections attached
\* to that side, as source or as target, are assigned one identical port
\* point, and so are all parallel-flow connections attached to that side.
C10_SharedPorts ==
    Routed =>
        \A key \in RouteKeys : \A flowType \in {"alternativeFlow", "parallelFlow"} :
            /\ \A i \in AttachedTo(key, flowType) : PortsOn(key, i) # {}
            /\ Cardinality(UNION {PortsOn(key, i) : i \in AttachedTo(key, flowType)}) <= 1

\* a side with an alternative flow leaving it, another alternative flow
\* entering it and a regular flow that takes a port of its own
C10_Witness ==
    /\ Routed
    /\ \E key \in RouteKeys :
          /\ \E i, j \in AttachedTo(key, "alternativeFlow") :
                /\ i # j
                /\ SourceKey(routed.metas[i]) = key
                /\ TargetKey(routed.metas[j]) = key
                /\ PortsOn(key, i) = PortsOn(key, j)
          /\ AttachedTo(key, "flow") # {}

\* the connections attached to a side, as source or target
AttachedAny(key) ==
    {i \in DOMAIN routed.metas :
        SourceKey(routed.metas[i]) = key \/ TargetKey(routed.metas[i]) = key}

\* regular flows and usages
OwnPortConnections ==
    {i \in DOMAIN routed.metas :
        routed.metas[i].conn.flowType \notin {"alternativeFlow", "parallelFlow"}}

\* C11: every regular-flow connection and every usage connection attached to
\* an (element, side) has a port point on that side that differs from the
\* port point of every other connection attached to the same (element, side).
C11_DedicatedPorts ==
    Routed =>
        \A key \in RouteKeys : \A i \in AttachedAny(key) \cap OwnPortConnections :
            /\ PortsOn(key, i) # {}
            /\ \A j \in AttachedAny(key) \ {i} : PortsOn(key, i) \cap PortsOn(key, j) = {}

\* a regular flow and a usage on one side, with two distinct ports
C11_Witness ==
    /\ Routed
    /\ \E key \in RouteKeys : \E i, j \in AttachedAny(key) :
          /\ routed.metas[i].conn.flowType = "flow"
          /\ routed.metas[j].conn.isUsage
          /\ PortsOn(key, i) # {} /\ PortsOn(key, j) # {}
          /\ PortsOn(key, i) # PortsOn(key, j)

\* C12: computeRouting returns exactly one RoutedConnection for every input
\* connection whose sourceId and targetId both resolve to an element, in
\* input order, and none for a connection with a missing endpoint.
C12_OnePerResolvable ==
    Routed =>
        LET Resolvable(c) == /\ HasElement(routeIn.elements, c.sourceId)
                             /\ HasElement(routeIn.elements, c.targetId)
        IN  [k \in DOMAIN routed.result |-> routed.result[k].connection]
                = SelectSeq(routeIn.connections, Resolvable)

\* the indices of the metas that were routed, in order
Kept ==
    SortAsc({i \in DOMAIN routed.metas :
                routed.sourcePorts[i] # << >> /\ routed.targetPorts[i] # << >>})

\* C13: a routed connection is direct if and only if its flow type is
\* alternative; an alternative-flow connection has exactly the 2 points
\* source port, target port, whatever its sides.
C13_DirectIffAlternative ==
    Routed =>
        \A k \in DOMAIN routed.result :
            /\ routed.result[k].isDirect
                  <=> (routed.result[k].connection.flowType = "alternativeFlow")
            /\ routed.result[k].isDirect =>
                  routed.result[k].points
                     = <<routed.sourcePorts[Kept[k]][1], routed.targetPorts[Kept[k]][1]>>

VerticalSide(side) == side \in {"top", "bottom"}

\* an alternative flow between sides on different axes with 2 points, next
\* to a routed connection that is not direct
C13_Witness ==
    /\ Routed
    /\ \E k, l \in DOMAIN routed.result :
          /\ routed.result[k].connection.flowType = "alternativeFlow"
          /\ VerticalSide(routed.metas[Kept[k]].sourceSide)
                # VerticalSide(routed.metas[Kept[k]].targetSide)
          /\ Len(routed.result[k].points) = 2
          /\ routed.result[k].points[1].x # routed.result[k].points[2].x
          /\ routed.result[k].points[1].y # routed.result[k].points[2].y
          /\ ~routed.result[l].isDirect

\* the shape of the path pts from port sp to port tp for sides s and t
OrthogonalShape(pts, sp, tp, s, t) ==
    /\ pts[1] = sp /\ pts[Len(pts)] = tp
    /\ \A n \in 1..(Len(pts) - 1) : pts[n].x = pts[n + 1].x \/ pts[n].y = pts[n + 1].y
    /\ IF VerticalSide(s) /\ VerticalSide(t)
       THEN IF sp.x = tp.x THEN Len(pts) = 2
            ELSE /\ Len(pts) = 4
                 /\ pts[2].y = pts[3].y /\ 2 * pts[2].y = sp.y + tp.y
       ELSE IF ~VerticalSide(s) /\ ~VerticalSide(t)
       THEN IF sp.y = tp.y THEN Len(pts) = 2
            ELSE /\ Len(pts) = 4
                 /\ pts[2].x = pts[3].x /\ 2 * pts[2].x = sp.x + tp.x
       ELSE Len(pts) = 3

\* C14: for every non-alternative routed connection every pair of
\* consecutive waypoints shares its x or its y; the path has 2 points when
\* the sides are on one axis and the ports align, 4 points through the
\* midpoint when they do not align, and 3 points when the sides are on
\* different axes.
C14_OrthogonalPaths ==
    Routed =>
        \A k \in DOMAIN routed.result :
            routed.result[k].connection.flowType # "alternativeFlow" =>
                OrthogonalShape(routed.result[k].points,
                                routed.sourcePorts[Kept[k]][1], routed.targetPorts[Kept[k]][1],
                                routed.metas[Kept[k]].sourceSide,
                                routed.metas[Kept[k]].targetSide)

\* non-alternative paths of 2, 3 and 4 points in one result
C14_Witness ==
    /\ Routed
    /\ \A n \in {2, 3, 4} : \E k \in DOMAIN routed.result :
          /\ routed.result[k].connection.flowType # "alternativeFlow"
          /\ Len(routed.result[k].points) = n

(* -------------------------- layout: scenarios --------------------------- *)

\* Phases 0-3 of the one layoutSingleSystem call made for a model without
\* system limits
SinglePhases(m) ==
    WithAffinities(WithOrder(WithGraph(LayoutArgs(m.states, m.process_operators,
                                                  m.technical_resources, m.flows,
                                                  m.usages, 0, 0))))

\* operator o1 outputs to state s, s feeds operator o2, rank(o2) < rank(o1)
FeedsBack(c, s, o1, o2) ==
    /\ \E f \in SeqToSet(c.flows) : f.source_ref = o1.id /\ f.target_ref = s.id
    /\ \E f \in SeqToSet(c.flows) : f.source_ref = s.id /\ f.target_ref = o2.id
    /\ RankOf(c.sorted.poRank, o2.id) < RankOf(c.sorted.poRank, o1.id)

FeedbackStates(c) ==
    {s \in SeqToSet(c.states) :
        /\ s.placement = NoPlacement
        /\ \E o1, o2 \in SeqToSet(c.processOperators) : FeedsBack(c, s, o1, o2)}

OperatorElements == {e \in SeqToSet(diagram.elements) : e.type = "processOperator"}

FeedbackLeft(c) ==
    \A s \in FeedbackStates(c) :
        /\ c.aff[s.id].category = "internal"
        /\ \E e \in SeqToSet(diagram.elements) : e.id = s.id
        /\ \A e \in SeqToSet(diagram.elements) :
              e.id = s.id => \A o \in OperatorElements : e.x + e.width <= o.x

\* C15: a state without placement annotation that operator O1 outputs to and
\* that feeds operator O2 with rank(O2) < rank(O1) is classified internal
\* and its element lies entirely left of the operator column, so in no
\* forward gap between operator rows.
C15_FeedbackLeft ==
    (LaidOut /\ model.system_limits = << >>) => FeedbackLeft(SinglePhases(model))

C15_Witness ==
    /\ LaidOut
    /\ model.system_limits = << >>
    /\ FeedbackStates(SinglePhases(model)) # {}

\* the one element of the diagram with the given id
ElementOf(id) == CHOOSE e \in SeqToSet(diagram.elements) : e.id = id

\* element e sits centred on the top edge of rectangle b, over the centre
\* of b and of operator element o
CentredOnTop(e, b, o) ==
    /\ 2 * e.y + e.height = 2 * b.y
    /\ e.y + e.height <= o.y
    /\ 2 * e.x + e.width = 2 * b.x + b.width
    /\ 2 * b.x + b.width = 2 * o.x + o.width

\* C16: for the model of one product state P1, one operator O1 and one
\* regular flow P1 -> O1, P1 is classified boundary-top, its vertical centre
\* lies on the top edge of the system limit, above O1's row, and its
\* horizontal centre is the horizontal centre of the system limit, which is
\* O1's horizontal centre.
C16_BoundaryInference ==
    (LaidOut /\ model = OneStateModel("product", NoPlacement, 2, 2)) =>
        /\ SinglePhases(model).aff[11].category = "boundary-top"
        /\ Len(diagram.systemLimits) = 1
        /\ CentredOnTop(ElementOf(11), diagram.systemLimits[1], ElementOf(1))

\* the ids of the disconnected states and of the operators that no flow
\* refers to
DisconnectedIds(c) ==
    {s.id : s \in {t \in SeqToSet(c.states) : c.aff[t.id].category = "disconnected"}}
    \cup {p.id : p \in {q \in SeqToSet(c.processOperators) :
                          \A f \in SeqToSet(c.flows) :
                              f.source_ref # q.id /\ f.target_ref # q.id}}

InDisconnectedRow(ids) ==
    /\ \A id \in ids : \E e \in SeqToSet(diagram.elements) : e.id = id
    /\ \A e, f \in SeqToSet(diagram.elements) :
          (e.id \in ids /\ f.id \notin ids) => e.y > f.y + f.height
    /\ \A e, f \in SeqToSet(diagram.elements) :
          (e.id \in ids /\ f.id \in ids /\ e # f) =>
              /\ e.y = f.y
              /\ e.x + e.width <= f.x \/ f.x + f.width <= e.x

\* C17: every disconnected state and every operator referenced by no flow
\* appears in the disconnected row: below the bottom of every other
\* element, the row laid out left to right.
C17_DisconnectedRow ==
    (LaidOut /\ model.system_limits = << >>) =>
        InDisconnectedRow(DisconnectedIds(SinglePhases(model)))

\* every declared sub-system holds at least one operator
EverySystemHasOperator ==
    \A sl \in SeqToSet(model.system_limits) :
        \E p \in SeqToSet(model.process_operators) : p.system_id = sl

\* C18: when the model declares several sub-systems that each contain an
\* operator, the result has one system limit per sub-system in declaration
\* order, and each rectangle starts at or right of the right edge of the
\* rectangle before it.
C18_SystemsLeftToRight ==
    (LaidOut /\ Len(model.system_limits) >= 2 /\ EverySystemHasOperator) =>
        /\ [i \in DOMAIN diagram.systemLimits |-> diagram.systemLimits[i].id]
              = model.system_limits
        /\ \A i \in 1..(Len(diagram.systemLimits) - 1) :
              diagram.systemLimits[i].x + diagram.systemLimits[i].width
                 <= diagram.systemLimits[i + 1].x

(* ------------------------ useHistoryManager: claims -------------------- *)

\* s0 is initialState, s1, s2, ... the pushed values
Pushed(i) == IF i = 0 THEN initialState ELSE calls.pushed[i]

\* every queued update has been rendered: the hook returns these cells
InRender ==
    /\ pc = "hook"
    /\ rendered = [currentState |-> currentState, past |-> past, future |-> future]

\* C19: from s0, after pushState(s1), ..., pushState(sn), each value
\* different from the current one and n <= maxHistory, k <= n undo calls and
\* then j <= k redo calls leave currentState = s(n-k+j), whether a render
\* separates the calls or not.
C19_UndoRedoChain ==
    ( /\ InRender
      /\ calls.ordered
      /\ Len(calls.pushed) <= maxHistory
      /\ calls.undone <= Len(calls.pushed)
      /\ calls.redone <= calls.undone ) =>
        rendered.currentState = Pushed(Len(calls.pushed) - calls.undone + calls.redone)

\* C20: the past list never has more than maxHistory entries; after more
\* than maxHistory pushes the oldest entries are the dropped ones: k <=
\* maxHistory undo calls lead back to s(n-k), canUndo holds before the
\* maxHistory-th undo and is false after it.
C20_HistoryBound ==
    pc = "hook" =>
        /\ Len(past) <= maxHistory
        /\ Len(rendered.past) <= maxHistory
        /\ ( /\ InRender
             /\ calls.ordered
             /\ Len(calls.pushed) > maxHistory
             /\ calls.undone <= maxHistory
             /\ calls.redone = 0 ) =>
               /\ rendered.currentState = Pushed(Len(calls.pushed) - calls.undone)
               /\ (Len(rendered.past) > 0) <=> (calls.undone < maxHistory)

\* a pushState step with a value different from the current state
PushedNew ==
    /\ Len(calls'.pushed) > Len(calls.pushed)
    /\ calls'.pushed[Len(calls'.pushed)] # rendered.currentState

\* a redo step after a push, with nothing undone in between
RedoAfterPush == calls'.redone > calls.redone /\ calls.fresh

\* C21: a pushState with a value different from the current state empties
\* the redo future, and a redo after it does not bring back a state that
\* was undone before the push: it is a no-op.
C21_PushClearsFuture ==
    [][pc = "hook" =>
          /\ PushedNew => future' = << >>
          /\ RedoAfterPush => currentState' = currentState]_vars

(* --------------------------- useViewport: claims ----------------------- *)

InRange(zoom) == zoom.kind = "finite" /\ MIN_ZOOM <= zoom.v /\ zoom.v <= MAX_ZOOM

\* C22: after any sequence of zoomIn, zoomOut, handleWheel, pinch-zoom and
\* zoomToFit the zoom level is within [MIN_ZOOM, MAX_ZOOM].
C22_ZoomInRange == pc = "viewport" => InRange(viewport.zoom)

(* --------------------- operator sequencer: precedence ------------------ *)

ModelStateIds == {model.states[i].id : i \in 1..Len(model.states)}

\* an intermediate state has source operator a and target operator b
Precedes(a, b) ==
    /\ a # b
    /\ \E sid \in ModelStateIds : a \in OpsFeeding(sid) /\ b \in OpsFedBy(sid)

\* the operators reachable from the set S in at most k steps
RECURSIVE ReachableIn(_, _)
ReachableIn(S, k) ==
    IF k = 0 THEN S
    ELSE ReachableIn(S \cup {b \in OperatorIds : \E a \in S : Precedes(a, b)}, k - 1)

Acyclic ==
    \A a \in OperatorIds :
        a \notin ReachableIn({b \in OperatorIds : Precedes(a, b)}, Cardinality(OperatorIds))

\* C23: when the operator precedence graph is acyclic, every intermediate
\* state with source operator A and target operator B (A # B) has
\* rank(A) < rank(B).
C23_RanksRespectPrecedence ==
    (pc = "sorted" /\ Acyclic) =>
        \A a, b \in OperatorIds : Precedes(a, b) => poRank[a] < poRank[b]

\* an acyclic chain against the id order: 3 -> 2 -> 1
C23_Witness ==
    /\ pc = "sorted"
    /\ Acyclic
    /\ Cardinality(OperatorIds) = 3
    /\ Precedes(3, 2) /\ Precedes(2, 1)
    /\ poOrder = <<3, 2, 1>>

\* the number of distinct predecessors of p among rem
RemainingInDegree(p, rem) == Cardinality({q \in rem : Precedes(q, p)})

\* the operators the reference emits next from rem
ReferenceRound(rem) ==
    IF \E p \in rem : RemainingInDegree(p, rem) = 0
    THEN {p \in rem : RemainingInDegree(p, rem) = 0}
    ELSE {CHOOSE a \in rem : \A b \in rem :
              \/ RemainingInDegree(a, rem) < RemainingInDegree(b, rem)
              \/ RemainingInDegree(a, rem) = RemainingInDegree(b, rem) /\ a <= b}

RECURSIVE ReferenceOrder(_, _)
ReferenceOrder(rem, order) ==
    IF rem = {} THEN order
    ELSE ReferenceOrder(rem \ ReferenceRound(rem), order \o SortAsc(ReferenceRound(rem)))

\* C24: the order emitted by topologicalSortPOs is the reference order:
\* round by round all operators without remaining predecessor in ascending
\* id order, and when there is none the one remaining operator of lowest
\* remaining in-degree, ties broken by ascending id.
C24_ReferenceOrder ==
    pc = "sorted" => poOrder = ReferenceOrder(OperatorIds, << >>)

(* ---------------------------- layout: lanes ---------------------------- *)

\* the categories and the forward / backward split of the one
\* layoutSingleSystem call made for a model without system limits
SplitPhases(m) == WithSplit(WithCategories(SinglePhases(m)))

LeftOf(e, f) == e.x + e.width <= f.x

FeedbackLaneLeftmost(c) ==
    (Len(c.backwardInternals) > 0 /\ Len(c.leftStates) > 0) =>
        \A s \in SeqToSet(c.backwardInternals) :
            /\ \A o \in OperatorElements : LeftOf(ElementOf(s.id), o)
            /\ \A l \in SeqToSet(c.leftStates) : LeftOf(ElementOf(s.id), ElementOf(l.id))

\* C25: in a layout with feedback states and boundary-left states, every
\* feedback state lies left of the operator lane and left of every
\* boundary-left state.
C25_FeedbackLeftOfBoundaryLeft ==
    (LaidOut /\ model.system_limits = << >>) => FeedbackLaneLeftmost(SplitPhases(model))

BoundaryLeftOutermost(c) ==
    (Len(c.backwardInternals) > 0 /\ Len(c.leftStates) > 0) =>
        \A s \in SeqToSet(c.backwardInternals) :
            /\ \A o \in OperatorElements : LeftOf(ElementOf(s.id), o)
            /\ \A l \in SeqToSet(c.leftStates) : LeftOf(ElementOf(l.id), ElementOf(s.id))

\* C25 as amended: in a layout with feedback states and boundary-left
\* states, every feedback state lies left of the operator lane and right of
\* every boundary-left state.
C25_FeedbackBetween ==
    (LaidOut /\ model.system_limits = << >>) => BoundaryLeftOutermost(SplitPhases(model))

HasFeedbackAndLeft(c) == Len(c.backwardInternals) > 0 /\ Len(c.leftStates) > 0

C25_Witness ==
    /\ LaidOut
    /\ model.system_limits = << >>
    /\ HasFeedbackAndLeft(SplitPhases(model))

(* ----------------------------- routing: sides -------------------------- *)

\* point p lies on the given side of element el
OnSide(p, el, side) ==
    CASE side = "top" -> p.y = el.y /\ el.x <= p.x /\ p.x <= el.x + el.width
      [] side = "bottom" -> p.y = el.y + el.height /\ el.x <= p.x /\ p.x <= el.x + el.width
      [] side = "left" -> p.x = el.x /\ el.y <= p.y /\ p.y <= el.y + el.height
      [] side = "right" -> p.x = el.x + el.width /\ el.y <= p.y /\ p.y <= el.y + el.height

\* the side of from that faces to is vertical when |dy| >= |dx|
FacesVertically(from, to) ==
    Abs(centerOf(to).y - centerOf(from).y) >= Abs(centerOf(to).x - centerOf(from).x)

\* the end of a routed connection honours its hint, or without a hint the
\* axis inferred from the two centers
SideAsPinned(hint, side, port, el, other) ==
    IF hint # "none" THEN side = hint /\ OnSide(port, el, hint)
    ELSE VerticalSide(side) <=> FacesVertically(el, other)

\* C26: a connection with a sourceSide (targetSide) hint is routed with its
\* source (target) port on exactly that side of the source (target)
\* element, for every flow type; without a hint the side is inferred from
\* the two element centers.
C26_HintsPinSides ==
    Routed =>
        \A k \in DOMAIN routed.result :
            /\ SideAsPinned(routed.metas[Kept[k]].conn.sourceSide,
                            routed.metas[Kept[k]].sourceSide,
                            routed.sourcePorts[Kept[k]][1],
                            routed.metas[Kept[k]].source, routed.metas[Kept[k]].target)
            /\ SideAsPinned(routed.metas[Kept[k]].conn.targetSide,
                            routed.metas[Kept[k]].targetSide,
                            routed.targetPorts[Kept[k]][1],
                            routed.metas[Kept[k]].target, routed.metas[Kept[k]].source)

\* the alternative (parallel) flows among the metas
SharedFlows == {i \in DOMAIN routed.metas :
                   routed.metas[i].conn.flowType \in {"alternativeFlow", "parallelFlow"}}

\* the first connection in input order of the flow type of i with the same
\* source (target) element
FirstAtSource(i) ==
    MinOf({j \in SharedFlows :
              /\ routed.metas[j].conn.flowType = routed.metas[i].conn.flowType
              /\ routed.metas[j].conn.sourceId = routed.metas[i].conn.sourceId})

FirstAtTarget(i) ==
    MinOf({j \in SharedFlows :
              /\ routed.metas[j].conn.flowType = routed.metas[i].conn.flowType
              /\ routed.metas[j].conn.targetId = routed.metas[i].conn.targetId})

\* the side that Step 1 gives connection i before any alignment
OwnSourceSide(i) ==
    IF routed.metas[i].conn.sourceSide # "none" THEN routed.metas[i].conn.sourceSide
    ELSE determineSide(routed.metas[i].source, routed.metas[i].target)

OwnTargetSide(i) ==
    IF routed.metas[i].conn.targetSide # "none" THEN routed.metas[i].conn.targetSide
    ELSE determineSide(routed.metas[i].target, routed.metas[i].source)

KeptSet == {Kept[k] : k \in DOMAIN Kept}

\* C27: the alternative flows of one source element leave it on the side of
\* the first of them in input order, and the routed ones start at one
\* source port; likewise for the target element and the target port, and
\* for parallel flows.
C27_SharedSideAndPort ==
    Routed =>
        \A i \in SharedFlows :
            /\ routed.metas[i].sourceSide = OwnSourceSide(FirstAtSource(i))
            /\ routed.metas[i].targetSide = OwnTargetSide(FirstAtTarget(i))
            /\ \A j \in SharedFlows \cap KeptSet :
                  /\ i \in KeptSet
                  /\ routed.metas[j].conn.flowType = routed.metas[i].conn.flowType
                  => /\ routed.metas[j].conn.sourceId = routed.metas[i].conn.sourceId
                        => routed.sourcePorts[j] = routed.sourcePorts[i]
                     /\ routed.metas[j].conn.targetId = routed.metas[i].conn.targetId
                        => routed.targetPorts[j] = routed.targetPorts[i]

\* two routed flows of one type and one source whose own sides differ
C27_Witness ==
    /\ Routed
    /\ \E i, j \in SharedFlows \cap KeptSet :
          /\ i < j
          /\ routed.metas[j].conn.flowType = routed.metas[i].conn.flowType
          /\ routed.metas[j].conn.sourceId = routed.metas[i].conn.sourceId
          /\ OwnSourceSide(i) # OwnSourceSide(j)
          /\ routed.sourcePorts[j] = routed.sourcePorts[i]
          /\ routed.result[CHOOSE k \in DOMAIN Kept : Kept[k] = j].points[1]
                = routed.result[CHOOSE k \in DOMAIN Kept : Kept[k] = i].points[1]

(* --------------------------- layout: completeness ----------------------- *)

\* the ids of the states, process operators and technical resources
InputNodeIds ==
    ModelStateIds \cup OperatorIds
    \cup {model.technical_resources[i].id : i \in 1..Len(model.technical_resources)}

Occurrences(id) == Cardinality({i \in DOMAIN diagram.elements : diagram.elements[i].id = id})

\* C29: for a model without declared systems, every state, process operator
\* and technical resource of the input is exactly one element of the layout
\* result.
C29_EveryNodeOnce ==
    LaidOut /\ model.system_limits = << >> =>
        \A id \in InputNodeIds : Occurrences(id) = 1

(* ---------------------------- useFpbParser: claims --------------------- *)

\* the promise of request i settles in this step
Arrives(i) == requests[i].promise = "pending" /\ requests'[i].promise # "pending"

\* a later parse request was issued before the response of request i
Stale(i) == i < Len(requests)

\* what the hook shows of a parse: model, error, loading and the session id
Shown(p) == <<p.model, p.error, p.loading, p.sessionIdRef>>

\* C28: the response of a parse request, success or failure, that arrives
\* after a later request was issued changes neither model, error, loading
\* nor the session id; the successful response of the latest request makes
\* its model the model and ends loading, whether the responses of the
\* requests before it arrived earlier or are still to come.
C28_StaleResponsesIgnored ==
    [][pc = "parser" =>
          \A i \in DOMAIN requests :
              Arrives(i) =>
                 IF Stale(i) THEN Shown(parser') = Shown(parser)
                 ELSE parser.mounted /\ requests'[i].promise = "fulfilled" =>
                         /\ parser'.model # Null
                         /\ parser'.model.source = requests[i].text
                         /\ ~parser'.loading]_vars

\* request A for "a" and a later request B for another text, B answered
\* first and A after it: the model is B's and loading is over
C28_Witness ==
    /\ pc = "parser"
    /\ Len(requests) = 2
    /\ requests[1].promise = "fulfilled" /\ requests[2].promise = "fulfilled"
    /\ requests[1].settled > requests[2].settled
    /\ requests[1].text # requests[2].text
    /\ parser.model # Null /\ parser.model.source = requests[2].text
    /\ ~parser.loading

\* C30: while the source text is empty or whitespace-only the model is null,
\* whatever response arrives.
C30_EmptySourceNullModel ==
    pc = "parser" /\ trim(fpbSource) = "" => parser.model = Null

====
